---- MODULE Spec2Model ----
(***************************************************************************)
(* A model of the request-dispatch pipeline of 4thPlanet/webserver:        *)
(* the Accept negotiation (determineResponseInterface), the transfer       *)
(* encoding selection (writeWithContentEncoding), Error Delivery           *)
(* (errorHandler.Apply) and the per-request handler that ApplyRoute        *)
(* registers.                                                              *)
(*                                                                         *)
(* Text is modelled as a sequence of lexemes: "text", "/", "html", ",",    *)
(* ";q=", "0.5", ... so that strings.Split, strconv.ParseFloat and the map *)
(* lookups work on the header text as the code does.                       *)
(***************************************************************************)
EXTENDS Integers, Sequences, FiniteSets, TLC

VARIABLES
    negAccept,      \* the Accept header text handed to determineResponseInterface
    negImplements,  \* the satisfaction map handed to it
    negResult       \* what it returned; Pending before the call

negvars == <<negAccept, negImplements, negResult>>

VARIABLES
    enc             \* one call of writeWithContentEncoding: its arguments, the
                    \* response writer and the error it returned

encvars == <<enc>>

VARIABLES
    server,             \* the Server: its error handler (Nil when none is registered)
    route,              \* the Route the request is dispatched to, with what ApplyRoute computed for it
    req,                \* the Request: the inbound method and headers, and the fields the pipeline sets
    pc,                 \* where the dispatch unit stands in the handler ApplyRoute registered
    branch,             \* the branch the request took: normal, push-stream or duplex-socket
    mwNext,             \* runMiddlewares: the index, over both lists, of the next middleware
    responseInterface,  \* the negotiated capability
    response,           \* what the per-verb handler returned
    wr,                 \* the http.ResponseWriter w
    trace,              \* the calls made for the request, in order
    stream,             \* the push-stream producer of the route and its channel
    socket              \* the duplex socket: its reader, the route's handler and their channels

pipevars == <<server, route, req, pc, branch, mwNext, responseInterface, response, wr, trace,
              stream, socket>>

VARIABLES
    sessionStore,   \* the SessionStore of the server
    storeLog        \* the operations called on the store on its own, with what they returned

storevars == <<sessionStore, storeLog>>

VARIABLES
    session         \* the Session of the request: its Token and its Data

VARIABLES
    registry,       \* s.contentTypeInterfaces, the capability registry of the server
    fileHashMap,    \* the ETag table of one PublicRoute call, shared by its routes' handlers
    requests        \* the requests in flight at once: where each stands and what it holds

sharedvars == <<registry, fileHashMap, requests>>

vars == <<negvars, encvars, pipevars, storevars, session, sharedvars>>

\* ------------------------------------------------------------------------
\* Bounds of the model
\* ------------------------------------------------------------------------

\* the longest header, in entries, among the freely composed headers
MaxEntries == 2

\* the longest Accept-Encoding header, in tokens
MaxEncodings == 2

\* the number of server-level and of route-level middlewares registered
NumServerMiddlewares == 2
NumRouteMiddlewares == 2

\* the value the countdown of the example starts from
CountdownFrom == 2

\* the messages a client sends over a duplex socket
MaxMessages == 2

\* the operations called on a session store on its own
MaxStoreOps == 3

\* the requests in flight at once
NumRequests == 3

\* sort.Slice sorts a slice of at most 12 elements by insertion
\* (pdqsort_func's maxInsertion, Go 1.20, the toolchain go.mod names)
maxInsertion == 12

\* ------------------------------------------------------------------------
\* Text
\* ------------------------------------------------------------------------

Nil == "nil"

\* strings.Join(parts, sep)
RECURSIVE Join(_, _)
Join(parts, sep) ==
    IF Len(parts) = 0 THEN << >>
    ELSE IF Len(parts) = 1 THEN parts[1]
    ELSE parts[1] \o <<sep>> \o Join(Tail(parts), sep)

\* strings.Split(s, sep): always at least one part
RECURSIVE SplitFrom(_, _, _, _)
SplitFrom(s, sep, i, cur) ==
    IF i > Len(s) THEN <<cur>>
    ELSE IF s[i] = sep THEN <<cur>> \o SplitFrom(s, sep, i + 1, << >>)
    ELSE SplitFrom(s, sep, i + 1, Append(cur, s[i]))

Split(s, sep) == SplitFrom(s, sep, 1, << >>)

\* the float literals of the model, in tenths
FloatLits == {"0", "0.5", "0.9", "1"}

FloatTenths(l) ==
    CASE l = "0" -> 0
      [] l = "0.5" -> 5
      [] l = "0.9" -> 9
      [] l = "1" -> 10

\* a float64: a number (in tenths) or NaN
Num(v) == [nan |-> FALSE, v |-> v]
NaN == [nan |-> TRUE, v |-> 0]

\* strconv.ParseFloat(s, 64): "NaN" parses, without error, to NaN
ParseFloat(s) ==
    IF Len(s) = 1 /\ s[1] \in FloatLits THEN [err |-> FALSE, f |-> Num(FloatTenths(s[1]))]
    ELSE IF Len(s) = 1 /\ s[1] = "NaN" THEN [err |-> FALSE, f |-> NaN]
    ELSE [err |-> TRUE, f |-> Num(0)]

\* x > y on float64: false as soon as one side is NaN
FloatGreater(x, y) == ~x.nan /\ ~y.nan /\ x.v > y.v

\* ------------------------------------------------------------------------
\* sort.Slice(acceptedContentTypes, less), server.go 1234-1236
\* ------------------------------------------------------------------------

\* less(i, j): acceptedContentTypes[i].weight > acceptedContentTypes[j].weight
\* (Go indices, from 0)
Less(data, i, j) == FloatGreater(data[i + 1].weight, data[j + 1].weight)

Swap(data, i, j) == [data EXCEPT ![i + 1] = data[j + 1], ![j + 1] = data[i + 1]]

\* for j := i; j > a && less(j, j-1); j-- { swap(j, j-1) }
RECURSIVE insertionShift(_, _, _)
insertionShift(data, a, j) ==
    IF j > a /\ Less(data, j, j - 1) THEN insertionShift(Swap(data, j, j - 1), a, j - 1)
    ELSE data

RECURSIVE insertionSortFrom(_, _, _, _)
insertionSortFrom(data, a, b, i) ==
    IF i < b THEN insertionSortFrom(insertionShift(data, a, i), a, b, i + 1)
    ELSE data

\* insertionSortLessFunc(data, a, b)
insertionSort(data, a, b) == insertionSortFrom(data, a, b, a + 1)

\* order2: the two indices in order, counting a swap
order2(data, a, b, swaps) ==
    IF Less(data, b, a) THEN [x |-> b, y |-> a, swaps |-> swaps + 1]
    ELSE [x |-> a, y |-> b, swaps |-> swaps]

\* median of data[a], data[b], data[c]
median(data, a, b, c) ==
    LET r1 == order2(data, a, b, 0)
        r2 == order2(data, r1.y, c, r1.swaps)
        r3 == order2(data, r1.x, r2.x, r2.swaps)
    IN [pivot |-> r3.y, swaps |-> r3.swaps]

\* choosePivot for 8 <= b - a < 50 (no ninther): the median of three, and
\* whether the three were already in order (increasingHint)
choosePivot(data, a, b) ==
    LET l == b - a
        m == median(data, a + (l \div 4), a + (l \div 4) * 2, a + (l \div 4) * 3)
    IN [pivot |-> m.pivot, increasing |-> m.swaps = 0]

\* partialInsertionSort for b - a < 50 (no shifting): true iff already sorted
RECURSIVE firstDescent(_, _, _)
firstDescent(data, i, b) ==
    IF i < b /\ ~Less(data, i, i - 1) THEN firstDescent(data, i + 1, b) ELSE i

partialInsertionSort(data, a, b) == firstDescent(data, a + 1, b) = b

RECURSIVE scanUp(_, _, _, _)
scanUp(data, a, i, j) ==
    IF i <= j /\ Less(data, i, a) THEN scanUp(data, a, i + 1, j) ELSE i

RECURSIVE scanDown(_, _, _, _)
scanDown(data, a, i, j) ==
    IF i <= j /\ ~Less(data, j, a) THEN scanDown(data, a, i, j - 1) ELSE j

RECURSIVE partitionLoop(_, _, _, _)
partitionLoop(data, a, i0, j0) ==
    LET i == scanUp(data, a, i0, j0)
        j == scanDown(data, a, i, j0)
    IN IF i > j THEN [data |-> Swap(data, j, a), mid |-> j]
       ELSE partitionLoop(Swap(data, i, j), a, i + 1, j - 1)

\* partition_func(data, a, b, pivot)
partition(data, a, b, pivot) == partitionLoop(Swap(data, a, pivot), a, a + 1, b - 1)

\* pdqsort_func(data, 0, n, limit) as sort.Slice calls it. Slices of at most
\* maxInsertion elements are sorted by insertion. A longer slice is
\* partitioned around the chosen pivot unless it is found already sorted; the
\* model sorts slices of at most maxInsertion + 1 elements, for which both
\* sides of the partition are then sorted by insertion (no breakPatterns,
\* no partitionEqual, no heapsort is reached).
SortSlice(data) ==
    LET n == Len(data) IN
    IF n <= maxInsertion THEN insertionSort(data, 0, n)
    ELSE LET c == choosePivot(data, 0, n) IN
         IF c.increasing /\ partialInsertionSort(data, 0, n) THEN data
         ELSE LET p == partition(data, 0, n, c.pivot)
              IN insertionSort(insertionSort(p.data, 0, p.mid), p.mid + 1, n)

\* ------------------------------------------------------------------------
\* determineResponseInterface, server.go 1193-1262
\* ------------------------------------------------------------------------

Continue == "continue"
Panic == "panic"

\* s[i] in Go: an index out of range panics
Index(s, i) ==
    IF i + 1 \in DOMAIN s THEN [ok |-> TRUE, v |-> s[i + 1]]
    ELSE [ok |-> FALSE, v |-> << >>]

\* implementsMap[key]: false for a key the map does not hold
Implements(implementsMap, key) == key \in DOMAIN implementsMap /\ implementsMap[key]

\* s.contentTypeInterfaces[key]: nil for a key the map does not hold
Registered(contentTypeInterfaces, key) ==
    IF key \in DOMAIN contentTypeInterfaces THEN contentTypeInterfaces[key] ELSE Nil

\* the zero value of acceptedContentType
ZeroAccepted == [panic |-> FALSE, contentType |-> << >>, weight |-> Num(0)]

\* lines 1221-1231: one element of acceptedContentTypes; an entry whose
\* weight does not parse leaves the zero value in its place
parseAccepted(contentType) ==
    LET acceptedParts == Split(contentType, ";q=")
        first == Index(acceptedParts, 0)
    IN IF ~first.ok THEN [ZeroAccepted EXCEPT !.panic = TRUE]
       ELSE IF Len(acceptedParts) > 1
       THEN LET second == Index(acceptedParts, 1)
                parsed == ParseFloat(second.v)
            IN IF ~second.ok THEN [ZeroAccepted EXCEPT !.panic = TRUE]
               ELSE IF parsed.err THEN ZeroAccepted
               ELSE [panic |-> FALSE, contentType |-> first.v, weight |-> parsed.f]
       ELSE [panic |-> FALSE, contentType |-> first.v, weight |-> Num(10)]

\* lines 1216-1232
acceptedContentTypesOf(acceptHeader) ==
    LET acceptHeaderSplit == Split(acceptHeader, ",")
    IN [idx \in 1..Len(acceptHeaderSplit) |-> parseAccepted(acceptHeaderSplit[idx])]

\* matchAccepted without the len(parts) == 1 guard of line 1245
matchAcceptedUnguarded(contentTypeInterfaces, implementsMap, contentType) ==
    IF Implements(implementsMap, contentType)
    THEN Registered(contentTypeInterfaces, contentType)
    ELSE LET parts == Split(contentType, "/")
             major == Index(parts, 0)
             minor == Index(parts, 1)
         IN IF ~minor.ok \/ ~major.ok THEN Panic
            ELSE IF minor.v = <<"*">>
            THEN IF Implements(implementsMap, major.v)
                 THEN Registered(contentTypeInterfaces, major.v)
                 ELSE Continue
            ELSE IF Implements(implementsMap, minor.v)
                 THEN Registered(contentTypeInterfaces, minor.v)
                 ELSE Continue

\* lines 1240-1259, the loop body for one entry: the type returned, Continue
\* when the loop goes on, Panic when an index is out of range
matchAccepted(contentTypeInterfaces, implementsMap, contentType) ==
    IF Implements(implementsMap, contentType)
    THEN Registered(contentTypeInterfaces, contentType)
    ELSE LET parts == Split(contentType, "/")
             major == Index(parts, 0)
             minor == Index(parts, 1)
         IN IF Len(parts) = 1 THEN Continue
            ELSE IF ~minor.ok \/ ~major.ok THEN Panic
            ELSE IF minor.v = <<"*">>
            THEN IF Implements(implementsMap, major.v)
                 THEN Registered(contentTypeInterfaces, major.v)
                 ELSE Continue
            ELSE IF Implements(implementsMap, minor.v)
                 THEN Registered(contentTypeInterfaces, minor.v)
                 ELSE Continue

\* lines 1238-1261: the first entry, in sorted order, that returns
RECURSIVE firstMatch(_, _, _, _)
firstMatch(contentTypeInterfaces, implementsMap, sorted, i) ==
    IF i > Len(sorted) THEN Nil
    ELSE LET r == matchAccepted(contentTypeInterfaces, implementsMap, sorted[i].contentType)
         IN IF r = Continue
            THEN firstMatch(contentTypeInterfaces, implementsMap, sorted, i + 1)
            ELSE r

determineResponseInterface(contentTypeInterfaces, acceptHeader, implementsMap) ==
    IF Len(acceptHeader) = 0 THEN Nil
    ELSE LET acceptedContentTypes == acceptedContentTypesOf(acceptHeader)
         IN IF \E idx \in DOMAIN acceptedContentTypes : acceptedContentTypes[idx].panic
            THEN Panic
            ELSE firstMatch(contentTypeInterfaces, implementsMap,
                            SortSlice(acceptedContentTypes), 1)

\* ------------------------------------------------------------------------
\* http.ResponseWriter
\* ------------------------------------------------------------------------

HeaderNames == {"Content-Encoding", "Content-Type", "Cache-Control", "Connection", "Set-Cookie"}

\* a response writer nothing was written to: status 0 stands for "header not
\* written"; sent holds the headers as they were when the status was written
NewResponseWriter ==
    [status |-> 0,
     headers |-> [h \in HeaderNames |-> << >>],
     sent |-> [h \in HeaderNames |-> << >>],
     body |-> << >>,
     superfluous |-> 0]

\* w.Header().Set(name, value)
HeaderSet(w, name, value) == [w EXCEPT !.headers[name] = <<value>>]

\* w.WriteHeader(code): the first call commits status and headers, a later
\* one is superfluous and changes nothing
WriteHeader(w, code) ==
    IF w.status = 0 THEN [w EXCEPT !.status = code, !.sent = w.headers]
    ELSE [w EXCEPT !.superfluous = @ + 1]

\* w.Write(chunk): writes the header with status 200 if none was written
Write(w, chunk) ==
    LET w1 == IF w.status = 0 THEN WriteHeader(w, 200) ELSE w
    IN [w1 EXCEPT !.body = Append(@, chunk)]

\* what net/http does with w when the function registered with HandleFunc
\* returns: a response whose header was never written goes out with 200
finishRequest(w) == IF w.status = 0 THEN WriteHeader(w, 200) ELSE w

\* ------------------------------------------------------------------------
\* writeWithContentEncoding, server.go 1497-1535
\* ------------------------------------------------------------------------

\* strings.TrimSpace
RECURSIVE TrimLeft(_)
TrimLeft(s) == IF Len(s) > 0 /\ s[1] = " " THEN TrimLeft(Tail(s)) ELSE s

RECURSIVE TrimRight(_)
TrimRight(s) ==
    IF Len(s) > 0 /\ s[Len(s)] = " " THEN TrimRight(SubSeq(s, 1, Len(s) - 1)) ELSE s

TrimSpace(s) == TrimRight(TrimLeft(s))

Compressors == {"gzip", "deflate", "br"}

\* the loop of lines 1505-1531: the compressor of the first token that is a
\* case of the switch with a break ENCODINGLOOP, "" when the loop runs out
\* ("identity" only leaves the switch)
RECURSIVE encodingLoop(_, _)
encodingLoop(encodings, i) ==
    IF i > Len(encodings) THEN ""
    ELSE LET encoding == TrimSpace(encodings[i])
         IN IF Len(encoding) = 1 /\ encoding[1] \in Compressors THEN encoding[1]
            ELSE encodingLoop(encodings, i + 1)

\* the loop without its break ENCODINGLOOP: a later token replaces the writer
RECURSIVE encodingLoopNoBreak(_, _)
encodingLoopNoBreak(encodings, i) ==
    IF i > Len(encodings) THEN ""
    ELSE LET encoding == TrimSpace(encodings[i])
             later == encodingLoopNoBreak(encodings, i + 1)
         IN IF later # "" THEN later
            ELSE IF Len(encoding) = 1 /\ encoding[1] \in Compressors THEN encoding[1]
            ELSE ""

\* the selection with the break dropped
selectEncodingNoBreak(acceptEncodingHeader) ==
    encodingLoopNoBreak(Split(acceptEncodingHeader, ","), 1)

\* lines 1503-1531
selectEncoding(acceptEncodingHeader) == encodingLoop(Split(acceptEncodingHeader, ","), 1)

\* the body chunk a writer wrapped in compressor encoding ("" for none) puts
\* on the wire for content
Encoded(encoding, content) == [encoding |-> encoding, content |-> content]

\* writeWithContentEncoding(content, acceptEncodingHeader, w, statusCode);
\* fail says whether writer.Write fails (the client is gone). The result is
\* the writer and whether an error is returned.
writeWithContentEncoding(w, content, acceptEncodingHeader, statusCode, fail) ==
    IF Len(content) = 0 THEN [w |-> w, err |-> FALSE]
    ELSE LET encoding == selectEncoding(acceptEncodingHeader)
             w1 == IF encoding # "" THEN HeaderSet(w, "Content-Encoding", encoding) ELSE w
             w2 == WriteHeader(w1, statusCode)
         IN IF fail THEN [w |-> w2, err |-> TRUE]
            ELSE [w |-> Write(w2, Encoded(encoding, content)), err |-> FALSE]

\* ------------------------------------------------------------------------
\* The negotiation on its own: determineResponseInterface applied to a header
\* and a satisfaction map (as TestDetermineResponseInterface does)
\* ------------------------------------------------------------------------

Pending == "pending"

\* the registry of TestDetermineResponseInterface: New registers html, csv and
\* json, the test adds text/xml and text
TestRegistry ==
    (<<"html">> :> "Htmler") @@ (<<"csv">> :> "Csver") @@ (<<"json">> :> "Jsoner")
    @@ (<<"text", "/", "xml">> :> "TestXmler") @@ (<<"text">> :> "TestTexter")

MediaRanges ==
    { <<"text", "/", "html">>, <<"text", "/", "csv">>, <<"text", "/", "*">>,
      <<"text", "/", "xml">>, <<"DONTPANIC">>, << >> }

WeightParams == { << >>, <<";q=", "0.5">>, <<";q=", "NaN">>, <<";q=", "x">> }

AcceptEntries == { m \o w : m \in MediaRanges, w \in WeightParams }

\* headers of up to MaxEntries entries, and the empty header
ShortHeaders ==
    { << >> } \cup
    UNION { { Join(es, ",") : es \in [1..n -> AcceptEntries] } : n \in 1..MaxEntries }

\* headers of maxInsertion + 1 entries: a first, a middle and a last entry
\* among entries that match nothing
LongEntries ==
    { <<"text", "/", "csv", ";q=", "0.5">>, <<"text", "/", "html", ";q=", "0.5">>,
      <<"text", "/", "html">>, <<"DONTPANIC">> }

PadEntry == <<"DONTPANIC", ";q=", "0.5">>

LongHeaders ==
    LET n == maxInsertion + 1
        mid == (n \div 4) * 2 + 1
    IN { Join([i \in 1..n |-> IF i = 1 THEN a ELSE IF i = mid THEN b
                              ELSE IF i = n THEN c ELSE PadEntry], ",")
         : a \in LongEntries, b \in LongEntries, c \in LongEntries }

\* headers of three entries whose middle entry has the weight NaN
TripleHeaders ==
    { Join(<<a, <<"DONTPANIC", ";q=", "NaN">>, c>>, ",") :
        a \in LongEntries, c \in LongEntries }

\* satisfaction maps over the registry's tokens (ApplyRoute fills one entry
\* per registered token); no response type of the model is a Jsoner
SatisfactionMaps ==
    { [t \in DOMAIN TestRegistry |-> t \in on] :
        on \in SUBSET (DOMAIN TestRegistry \ { <<"json">> }) }

\* the values of the variables a specification does not use
NegIdle ==
    /\ negAccept = << >>
    /\ negImplements = << >>
    /\ negResult = Nil

EncIdle == enc = Nil

SharedIdle ==
    /\ registry = Nil
    /\ fileHashMap = Nil
    /\ requests = Nil

StoreIdle ==
    /\ sessionStore = Nil
    /\ storeLog = << >>

PipeIdle ==
    /\ server = Nil
    /\ route = Nil
    /\ req = Nil
    /\ pc = "idle"
    /\ branch = "none"
    /\ mwNext = 0
    /\ responseInterface = Nil
    /\ response = Nil
    /\ wr = Nil
    /\ trace = << >>
    /\ stream = Nil
    /\ socket = Nil
    /\ session = Nil

InitNeg ==
    /\ negAccept \in ShortHeaders \cup TripleHeaders \cup LongHeaders
    /\ negImplements \in SatisfactionMaps
    /\ negResult = Pending
    /\ EncIdle
    /\ SharedIdle
    /\ PipeIdle
    /\ StoreIdle

Negotiate ==
    /\ negResult = Pending
    /\ negResult' = determineResponseInterface(TestRegistry, negAccept, negImplements)
    /\ UNCHANGED <<sharedvars, negAccept, negImplements, encvars, pipevars, storevars, session>>

NextNeg == Negotiate

SpecNeg == InitNeg /\ [][NextNeg]_vars

\* ------------------------------------------------------------------------
\* Claims about the negotiation (checked under SpecNeg)
\* ------------------------------------------------------------------------

Negotiated == negResult # Pending

\* the header's entries as parsed (an entry whose weight does not parse is
\* the zero value, which matches nothing)
NegEntries == acceptedContentTypesOf(negAccept)

NegMatch(k) == matchAccepted(TestRegistry, negImplements, NegEntries[k].contentType)

\* the entries that match a satisfied capability
NegMatching == { k \in DOMAIN NegEntries : NegMatch(k) \notin {Continue, Panic} }

\* entry k is chosen and no matching entry outweighs it
MaximalChoice(k) ==
    /\ NegMatch(k) = negResult
    /\ \A j \in NegMatching : ~FloatGreater(NegEntries[j].weight, NegEntries[k].weight)

\* C1: for every non-empty Accept header and satisfaction map, the capability
\* returned is the one matched by an entry whose weight is maximal among the
\* entries that match a satisfied capability.
C1_MaximalWeightChosen ==
    (Negotiated /\ Len(negAccept) > 0 /\ NegMatching # {}) =>
        \E k \in NegMatching : MaximalChoice(k)

\* The same, for headers none of whose weights is NaN.
C1_MaximalWeightChosenNoNaN ==
    (Negotiated /\ Len(negAccept) > 0 /\ NegMatching # {}
       /\ \A k \in DOMAIN NegEntries : ~NegEntries[k].weight.nan) =>
        \E k \in NegMatching : MaximalChoice(k)

\* C2: among entries of equal weight that each match a satisfied capability,
\* the one chosen is the earliest in the header, whatever the number of
\* entries: the chosen entry is not preceded by a matching entry of the same
\* weight that stands for another capability.
C2_EqualWeightKeepsHeaderOrder ==
    (Negotiated /\ NegMatching # {}) =>
        \E k \in NegMatching :
            /\ NegMatch(k) = negResult
            /\ \A j \in NegMatching :
                  (j < k /\ NegEntries[j].weight = NegEntries[k].weight)
                      => NegMatch(j) = negResult

\* The same, for headers of at most maxInsertion entries.
C2_EqualWeightKeepsHeaderOrderShort ==
    (Negotiated /\ NegMatching # {} /\ Len(NegEntries) <= maxInsertion) =>
        \E k \in NegMatching :
            /\ NegMatch(k) = negResult
            /\ \A j \in NegMatching :
                  (j < k /\ NegEntries[j].weight = NegEntries[k].weight)
                      => NegMatch(j) = negResult

OnlyHtml == [t \in DOMAIN TestRegistry |-> t = <<"html">>]

\* C3: Accept "text/*" with a response type that satisfies only the HTML
\* capability, registered under "html", resolves to the HTML capability.
C3_TextWildcardResolvesToHtml ==
    (Negotiated /\ negAccept = <<"text", "/", "*">> /\ negImplements = OnlyHtml)
        => negResult = "Htmler"

\* C4: for any header text and satisfaction map determineResponseInterface
\* does not panic; it returns nil or the registered capability of a token that
\* is true in the map, and nil when no entry matches a satisfied token.
C4_NilOrSatisfiedNeverPanics ==
    Negotiated =>
        /\ negResult # Panic
        /\ \/ negResult = Nil
           \/ \E t \in DOMAIN negImplements :
                 negImplements[t] /\ Registered(TestRegistry, t) = negResult
        /\ NegMatching = {} => negResult = Nil

\* a header with an entry without '/', an unparseable weight and an empty
\* entry all at once went through, and another one resolved to a capability
C4_Witness ==
    /\ Negotiated
    /\ negAccept = <<"DONTPANIC", ";q=", "x", ",">>
    /\ negResult = Nil

\* ------------------------------------------------------------------------
\* The transfer encoding on its own: writeWithContentEncoding applied to a
\* fresh response writer
\* ------------------------------------------------------------------------

EncodingTokens ==
    { <<"gzip">>, <<"deflate">>, <<"br">>, <<"identity">>, <<"zstd">>, <<" ", "br">> }

EncodingHeaders ==
    { << >> } \cup
    UNION { { Join(ts, ",") : ts \in [1..n -> EncodingTokens] } : n \in 1..MaxEncodings }

Contents == { << >>, <<"body">> }

StatusCodes == {200, 304}

InitEnc ==
    /\ enc \in [called : {FALSE}, accept : EncodingHeaders, content : Contents,
                statusCode : StatusCodes, w : {NewResponseWriter}, err : {FALSE}]
    /\ NegIdle
    /\ SharedIdle
    /\ PipeIdle
    /\ StoreIdle

WriteEncoded ==
    /\ ~enc.called
    /\ \E fail \in BOOLEAN :
          LET r == writeWithContentEncoding(enc.w, enc.content, enc.accept,
                                            enc.statusCode, fail)
          IN enc' = [enc EXCEPT !.called = TRUE, !.w = r.w, !.err = r.err]
    /\ UNCHANGED <<sharedvars, negvars, pipevars, storevars, session>>

NextEnc == WriteEncoded

SpecEnc == InitEnc /\ [][NextEnc]_vars

\* ------------------------------------------------------------------------
\* Verbs, verb.go (src/unnamed/part_000)
\* ------------------------------------------------------------------------

Verbs == {"GET", "POST", "PUT", "DELETE", "HEAD", "OPTIONS", "CONNECT", "TRACE", "PATCH"}

\* the zero Verb
NoVerb == "0"

\* strings.ToUpper on the method texts of the model
ToUpper(in) ==
    CASE in = "get" -> "GET"
      [] in = "post" -> "POST"
      [] in = "brew" -> "BREW"
      [] OTHER -> in

\* a ParseVerb that takes any text for a verb
ParseVerbAnyText(in) == [verb |-> ToUpper(in), err |-> FALSE]

\* ParseVerb(in)
ParseVerb(in) ==
    IF ToUpper(in) \in Verbs THEN [verb |-> ToUpper(in), err |-> FALSE]
    ELSE [verb |-> NoVerb, err |-> TRUE]

\* ------------------------------------------------------------------------
\* The server and its routes
\* ------------------------------------------------------------------------

\* s.contentTypeInterfaces after New: html, csv and json
NewRegistry ==
    (<<"html">> :> "Htmler") @@ (<<"csv">> :> "Csver") @@ (<<"json">> :> "Jsoner")

\* implements[t] = responseType.Implements(i), for every registered token
ImplementsOf(capabilities) == [t \in DOMAIN NewRegistry |-> NewRegistry[t] \in capabilities]

\* no error handler registered (s.errorHandler == nil), and the error handler
\* of the example, whose response type is an Htmler, a Csver and a Jsoner
NoErrorHandler == [registered |-> FALSE, implements |-> ImplementsOf({}), isReader |-> FALSE]

ExampleErrorHandler ==
    [registered |-> TRUE, implements |-> ImplementsOf({"Htmler", "Csver", "Jsoner"}),
     isReader |-> FALSE]

\* an error handler whose response type is an io.Reader no capability is
\* registered for
ReaderErrorHandler ==
    [registered |-> TRUE, implements |-> ImplementsOf({}), isReader |-> TRUE]

\* the routes of the example: the home page, the page views, whose body
\* type has the plain-text capability, the countdown with its
\* push-stream producer, the echo page with its duplex-socket handler, and a
\* static-asset route of PublicRoute, whose response type is an io.Reader
Routes ==
    { [path |-> "/", handlers |-> {"GET", "POST"},
       implements |-> ImplementsOf({"Htmler", "Csver", "Jsoner"}), isReader |-> FALSE,
       eventStream |-> FALSE, websocket |-> FALSE, bodyParsers |-> {"form", "multipart"}],
      [path |-> "/counts", handlers |-> {"GET", "PUT"},
       implements |-> ImplementsOf({"Htmler"}), isReader |-> FALSE,
       eventStream |-> FALSE, websocket |-> FALSE, bodyParsers |-> {"plain"}],
      [path |-> "/countdown", handlers |-> {"GET"},
       implements |-> ImplementsOf({"Htmler"}), isReader |-> FALSE,
       eventStream |-> TRUE, websocket |-> FALSE, bodyParsers |-> {}],
      [path |-> "/echo", handlers |-> {"GET"},
       implements |-> ImplementsOf({"Htmler"}), isReader |-> FALSE,
       eventStream |-> FALSE, websocket |-> TRUE, bodyParsers |-> {}],
      [path |-> "/js/", handlers |-> {"GET"},
       implements |-> ImplementsOf({}), isReader |-> TRUE,
       eventStream |-> FALSE, websocket |-> FALSE, bodyParsers |-> {"form", "multipart"}] }

\* the route-level list ranged over first
MiddlewareChainRouteFirst ==
    [i \in 1..NumRouteMiddlewares |-> <<"route", i>>]
    \o [i \in 1..NumServerMiddlewares |-> <<"server", i>>]

\* s.middlewares followed by route.middlewares, as runMiddlewares ranges
\* over them: <<level, index in its list>>
MiddlewareChain ==
    [i \in 1..NumServerMiddlewares |-> <<"server", i>>]
    \o [i \in 1..NumRouteMiddlewares |-> <<"route", i>>]

\* ------------------------------------------------------------------------
\* The inbound requests
\* ------------------------------------------------------------------------

Methods == {"GET", "post", "BREW"}

EventStreamAccept == <<"text", "/", "event-stream">>

Accepts == { << >>, <<"text", "/", "html">>, EventStreamAccept, <<"image", "/", "png">> }

Upgrades == {"", "websocket"}

AcceptEncodings == { << >>, <<"gzip", ",", " ", "br">> }

\* ------------------------------------------------------------------------
\* The calls made for a request: <<what, who, number>>
\* ------------------------------------------------------------------------

Call(what) == <<what, "", 0>>
CallN(what, n) == <<what, "", n>>
MiddlewareCall(mw) == <<"middleware", mw[1], mw[2]>>

\* the writer, the calls and the request an operation works on
Ctx == [wr |-> wr, trace |-> trace, req |-> req]

Logged(x, call) == [x EXCEPT !.trace = Append(@, call)]

\* deliverContentAsInterface(content, interfaceReflection): the bytes the
\* capability's method returns for the value; a value may render to nothing
deliverContentAsInterface(content, interfaceReflection) ==
    IF content = "empty" THEN << >> ELSE <<interfaceReflection, content>>

\* io.ReadAll(rdr) for a response that is an io.Reader
ReadAll(content) == IF content = "empty" THEN << >> ELSE <<"bytes", content>>

\* ------------------------------------------------------------------------
\* Error Delivery: errorHandler.Apply, errors.go 21-55
\* ------------------------------------------------------------------------

\* x with the call logged when cond holds
LoggedIf(cond, x, call) == IF cond THEN Logged(x, call) ELSE x

\* a default text sent for an error no representation was found for
errorBufDefaultText(h, negotiated) ==
    IF negotiated # Nil THEN deliverContentAsInterface("error", negotiated)
    ELSE IF h.isReader THEN ReadAll("error")
    ELSE <<"text", "error">>

\* errors.go 28-47, the bytes of the error handler's response: through the
\* negotiated capability, read from its io.Reader, or none
errorBuf(h, negotiated) ==
    IF negotiated # Nil THEN deliverContentAsInterface("error", negotiated)
    ELSE IF h.isReader THEN ReadAll("error")
    ELSE << >>

\* the outcome r of the write taken into x, errors.go 48-53
applyWritten(x, buf, r) ==
    Logged(LoggedIf(r.err, [x EXCEPT !.wr = r.w, !.req.responseSize = Len(buf)],
                    Call("LogError")),
           Call("LogRequest"))

\* errors.go 48-53: the bytes are written, a failed write and the request
\* are logged
applyWrite(x, buf, statusCode, fail) ==
    applyWritten(x, buf,
                 writeWithContentEncoding(x.wr, buf, x.req.acceptEncoding, statusCode, fail))

\* errors.go 33-53, given what the negotiation found; readFail says whether
\* reading the handler's io.Reader fails, fail whether the write does
applyNegotiated(x, h, negotiated, statusCode, readFail, fail) ==
    IF negotiated = Nil /\ h.isReader /\ readFail
    THEN [x EXCEPT !.wr = WriteHeader(@, 500)]
    ELSE applyWrite(x, errorBuf(h, negotiated), statusCode, fail)

\* the rest of Apply when an error handler is registered, errors.go 23-53
ApplyRegistered(x, h, statusCode, readFail, fail) ==
    applyNegotiated(Logged(x, CallN("errorFn", statusCode)), h,
                    determineResponseInterface(NewRegistry, x.req.accept, h.implements),
                    statusCode, readFail, fail)

\* Apply(req, statusCode, w) on the handler h (s.errorHandler)
Apply(x, h, statusCode, readFail, fail) ==
    LET x1 == [Logged(x, CallN("Apply", statusCode)) EXCEPT !.wr = WriteHeader(@, statusCode)]
    IN IF h.registered THEN ApplyRegistered(x1, h, statusCode, readFail, fail) ELSE x1

\* ------------------------------------------------------------------------
\* readBody, request.go (src/unnamed/part_004) 58-113
\* ------------------------------------------------------------------------

\* bufio.NewReader's buffer: what Peek(1) reads from the body at most
defaultBufSize == 4096

Min(a, b) == IF a < b THEN a ELSE b

\* strings.ToLower on the media types of the model
ToLower(in) ==
    CASE in = "Text/Plain" -> "text/plain"
      [] OTHER -> in

\* mime.ParseMediaType on a Content-Type header, given as the media type as
\* written followed by its parameters (<< >>: no header): the media type in
\* lower case, without the parameters; no media type is an error
ParseMediaType(contentType) ==
    IF contentType = << >> THEN [err |-> TRUE, mediaType |-> ""]
    ELSE [err |-> FALSE, mediaType |-> ToLower(contentType[1])]

\* an unknown media type passed over like a capability the target lacks
unsupportedMediaTypeSkipped(peeked) == [err |-> 0, set |-> TRUE, bodySize |-> peeked]

\* lines 107-108: the default case returns before req.Body is assigned
unsupportedMediaType(peeked) == [err |-> 415, set |-> FALSE, bodySize |-> peeked]

\* readBody(req, body) for a raw body of len bytes declared as contentType,
\* a target satisfying the parser capabilities parsers, and parseErr the
\* status with which the parser or the unmarshalling fails (0: it succeeds).
\* err is the status of the *Error returned (0: nil), set whether req.Body
\* was assigned, bodySize what the deferred function stores.
readBody(len, contentType, parsers, parseErr) ==
    LET peeked == Min(len, defaultBufSize)
        media == ParseMediaType(contentType)
        decoded == IF parseErr # 0 THEN [err |-> parseErr, set |-> FALSE, bodySize |-> len]
                   ELSE [err |-> 0, set |-> TRUE, bodySize |-> len]
        skipped == [err |-> 0, set |-> TRUE, bodySize |-> peeked]
    IN IF len = 0 THEN [err |-> 0, set |-> FALSE, bodySize |-> 0]
       ELSE IF media.err THEN [err |-> 400, set |-> FALSE, bodySize |-> peeked]
       ELSE CASE media.mediaType = "application/x-www-form-urlencoded" ->
                    IF "form" \in parsers THEN decoded ELSE skipped
              [] media.mediaType = "multipart/form-data" ->
                    IF "multipart" \in parsers THEN decoded ELSE skipped
              [] media.mediaType = "application/json" -> decoded
              [] media.mediaType = "text" ->
                    IF "plain" \in parsers THEN decoded ELSE skipped
              [] OTHER -> unsupportedMediaType(peeked)

\* the request bodies of the model: <<length, Content-Type>>
RequestBodies ==
    { <<0, << >>>>, <<3, << >>>>,
      <<defaultBufSize + 1, <<"application/x-www-form-urlencoded">>>>,
      <<3, <<"application/json">>>>, <<defaultBufSize + 1, <<"image/png">>>>,
      <<3, <<"Text/Plain", ";", "charset=utf-8">>>>, <<3, <<"text">>>> }

\* the status with which a parser fails
ParseErrors == {0, 400}

\* ------------------------------------------------------------------------
\* The session stores, session.go 27-78
\* ------------------------------------------------------------------------

\* the session tokens of the model, and the values of the session type T
Tokens == {"t1", "t2"}

SessionData == {"d1", "d2"}

\* the zero value of T, which a Go map returns for a key it does not hold
ZeroData == "zero"

\* NewInMemorySessionStore: Sessions is the map, a function on the keys it holds
NewInMemorySessionStore == [kind |-> "memory", Sessions |-> << >>]

\* Sessionless{}
Sessionless == [kind |-> "sessionless", Sessions |-> << >>]

\* a SessionStore of the application whose backend is out of reach: its Get
\* and its Save return an error
FailingStore == [kind |-> "failing", Sessions |-> << >>]

\* store.Get(token): the data and the error returned
Get(store, token) ==
    IF store.kind = "sessionless" THEN [data |-> Nil, err |-> FALSE]
    ELSE IF store.kind = "failing" THEN [data |-> Nil, err |-> TRUE]
    ELSE IF token \in DOMAIN store.Sessions
    THEN [data |-> store.Sessions[token], err |-> FALSE]
    ELSE [data |-> ZeroData, err |-> FALSE]

\* store.Save(token, data): the store after the call, whether the call
\* panicked (data.(T) panics on the nil interface) and whether it returned
\* an error
Save(store, token, data) ==
    IF store.kind = "sessionless" THEN [store |-> store, panic |-> FALSE, err |-> FALSE]
    ELSE IF store.kind = "failing" THEN [store |-> store, panic |-> FALSE, err |-> TRUE]
    ELSE IF data = Nil THEN [store |-> store, panic |-> TRUE, err |-> FALSE]
    ELSE [store |-> [store EXCEPT !.Sessions =
                        [t \in DOMAIN @ \cup {token} |-> IF t = token THEN data ELSE @[t]]],
          panic |-> FALSE, err |-> FALSE]

\* a Delete that works on a copy of the map
DeleteOnCopy(store, token) == store

\* store.Delete(token): the store after the call
Delete(store, token) ==
    IF store.kind = "sessionless" THEN store
    ELSE [store EXCEPT !.Sessions = [t \in DOMAIN @ \ {token} |-> @[t]]]

\* the token ParseToken generates when the request has no session_token cookie
GeneratedToken == "t2"

\* the values of the session_token cookie of a request (Nil: no such cookie)
SessionCookies == {Nil, "t1", ""}

\* store.ParseToken(header)
ParseToken(store, cookie) ==
    IF store.kind = "sessionless" THEN ""
    ELSE IF cookie = Nil THEN GeneratedToken
    ELSE cookie

\* ------------------------------------------------------------------------
\* Session, session.go 80-130
\* ------------------------------------------------------------------------

\* MaxAge of the session cookie, in seconds
sessionMaxAge == 24 * 60 * 60

\* http.Cookie{Name: "session_token", Value: token, MaxAge: maxAge} as
\* cookie.String() writes it
SessionCookie(token, maxAge) == <<"session_token", "=", token, "; Max-Age=", maxAge>>

\* the Session of lines 1294-1297, before load
NoSession == [Token |-> "", Data |-> Nil]

\* a load that keeps the error of store.Get to itself
loadErrorDropped(store, cookie) ==
    [session |-> [Token |-> ParseToken(store, cookie),
                  Data |-> Get(store, ParseToken(store, cookie)).data],
     err |-> FALSE]

\* session.load: the session after the call and whether store.Get failed
\* example/main.go 241-246: what a middleware that counts the views of the
\* session makes of the data the request holds (session.Count++); a request
\* without session data has nothing to count in
Touched(data) ==
    CASE data = ZeroData -> "d1"
      [] data = "d1" -> "d2"
      [] OTHER -> data

load(store, cookie) ==
    LET token == ParseToken(store, cookie)
    IN IF Get(store, token).err THEN [session |-> [Token |-> token, Data |-> Nil], err |-> TRUE]
       ELSE [session |-> [Token |-> token, Data |-> Get(store, token).data], err |-> FALSE]

\* a save that sets the cookie whatever the token is
saveAlwaysCookie(w, store, s) ==
    [store |-> Save(store, s.Token, s.Data).store,
     panic |-> Save(store, s.Token, s.Data).panic,
     storeErr |-> Save(store, s.Token, s.Data).err,
     err |-> FALSE,
     w |-> HeaderSet(w, "Set-Cookie", SessionCookie(s.Token, sessionMaxAge))]

\* session.save: the store and the writer after the call, whether
\* store.Save panicked (then the cookie is not reached), the error store.Save
\* returned, which lines 106 and 108 drop, and the error save returns, which
\* is nil at line 118
save(w, store, s) ==
    [store |-> Save(store, s.Token, s.Data).store,
     panic |-> Save(store, s.Token, s.Data).panic,
     storeErr |-> Save(store, s.Token, s.Data).err,
     err |-> FALSE,
     w |-> IF ~Save(store, s.Token, s.Data).panic /\ s.Token # ""
           THEN HeaderSet(w, "Set-Cookie", SessionCookie(s.Token, sessionMaxAge))
           ELSE w]

\* ------------------------------------------------------------------------
\* The in-memory store on its own: any sequence of Save, Delete and Get
\* ------------------------------------------------------------------------

InitStore ==
    /\ sessionStore = NewInMemorySessionStore
    /\ storeLog = << >>
    /\ session = Nil
    /\ NegIdle
    /\ EncIdle
    /\ SharedIdle
    /\ PipeIdle

\* an operation of the store as logged: what was called, with which token
\* and data, and the data it returned
StoreOp(op, token, data, returned) ==
    [op |-> op, token |-> token, data |-> data, returned |-> returned]

StoreSave ==
    /\ Len(storeLog) < MaxStoreOps
    /\ \E token \in Tokens, data \in SessionData \cup {ZeroData, Nil} :
          \E r \in { Save(sessionStore, token, data) } :
             /\ sessionStore' = r.store
             /\ storeLog' = Append(storeLog, StoreOp(IF r.panic THEN "SavePanic" ELSE "Save",
                                                     token, data, Nil))
    /\ UNCHANGED <<sharedvars, negvars, encvars, pipevars, session>>

StoreDelete ==
    /\ Len(storeLog) < MaxStoreOps
    /\ \E token \in Tokens :
          /\ sessionStore' = Delete(sessionStore, token)
          /\ storeLog' = Append(storeLog, StoreOp("Delete", token, Nil, Nil))
    /\ UNCHANGED <<sharedvars, negvars, encvars, pipevars, session>>

StoreGet ==
    /\ Len(storeLog) < MaxStoreOps
    /\ \E token \in Tokens :
          storeLog' = Append(storeLog, StoreOp("Get", token, Nil, Get(sessionStore, token).data))
    /\ UNCHANGED <<sharedvars, negvars, encvars, pipevars, session, sessionStore>>

NextStore == StoreSave \/ StoreDelete \/ StoreGet

SpecStore == InitStore /\ [][NextStore]_vars

\* ------------------------------------------------------------------------
\* The handler ApplyRoute registers, server.go 1283-1491
\* ------------------------------------------------------------------------

\* no producer started, no connection upgraded
NoStream == [started |-> FALSE, count |-> 0, closed |-> FALSE, cancelled |-> FALSE]

NoSocket ==
    [reader |-> "none", handler |-> "none", read |-> << >>, received |-> << >>,
     written |-> << >>, lost |-> 0, closes |-> 0, cancelled |-> FALSE]

NoResponse == [value |-> Nil, content |-> << >>]

\* lines 1285-1297: the Request as constructed from the inbound request
NewRequest(method, accept, upgrade, acceptEncoding, cookie, body) ==
    [method |-> method, accept |-> accept, upgrade |-> upgrade,
     acceptEncoding |-> acceptEncoding, cookie |-> cookie,
     contentLength |-> body[1], contentType |-> body[2],
     Verb |-> NoVerb, Body |-> Nil, ResponseCode |-> 0, bodySize |-> 0, responseSize |-> 0]

Init ==
    /\ NegIdle
    /\ EncIdle
    /\ SharedIdle
    /\ server \in [errorHandler : {NoErrorHandler, ExampleErrorHandler, ReaderErrorHandler}]
    /\ route \in Routes
    /\ req \in { NewRequest(m, a, u, e, c, b) :
                   m \in Methods, a \in Accepts, u \in Upgrades, e \in AcceptEncodings,
                   c \in SessionCookies, b \in RequestBodies }
    /\ pc = "load"
    /\ branch = "none"
    /\ mwNext = 1
    /\ responseInterface = Nil
    /\ response = NoResponse
    /\ wr = NewResponseWriter
    /\ trace = << >>
    /\ stream = NoStream
    /\ socket = NoSocket
    /\ sessionStore \in {NewInMemorySessionStore, Sessionless, FailingStore}
    /\ storeLog = << >>
    /\ session = NoSession

\* the step left the request, the writer and the calls as x has them
Becomes(x) ==
    /\ wr' = x.wr
    /\ trace' = x.trace
    /\ req' = x.req

\* lines 1299-1301: session.load; an error of the store is logged
LoadSession ==
    /\ pc = "load"
    /\ \E r \in { load(sessionStore, req.cookie) } :
          /\ session' = r.session
          /\ Becomes(LoggedIf(r.err, Logged(Ctx, Call("session.load")),
                              <<"LogError", "session.load", 0>>))
    /\ pc' = "verb"
    /\ UNCHANGED <<sharedvars, negvars, encvars, storevars, stream, socket, server, route, branch, mwNext, responseInterface, response>>

\* lines 1325-1331
ResolveVerb ==
    /\ pc = "verb"
    /\ LET parsed == ParseVerb(req.method)
           x1 == [Ctx EXCEPT !.req.Verb = parsed.verb]
       IN IF parsed.err
          THEN /\ \E readFail \in BOOLEAN, fail \in BOOLEAN :
                     Becomes(Apply(x1, server.errorHandler, 501, readFail, fail))
               /\ pc' = "done"
          ELSE /\ Becomes(x1)
               /\ pc' = "lookup"
    /\ UNCHANGED <<sharedvars, negvars, encvars, storevars, session, stream, socket, server, route, branch, mwNext, responseInterface, response>>

\* a lookup that finds a handler for every verb
lookupAnyVerb(handlers, verb) == TRUE

\* line 1334, handlers[req.Verb]: whether the map holds the verb
lookup(handlers, verb) == verb \in handlers

\* lines 1334-1338
LookupHandler ==
    /\ pc = "lookup"
    /\ IF lookup(route.handlers, req.Verb)
       THEN /\ pc' = "dispatch"
            /\ UNCHANGED <<wr, trace, req>>
       ELSE /\ \E readFail \in BOOLEAN, fail \in BOOLEAN :
                  Becomes(Apply(Ctx, server.errorHandler, 405, readFail, fail))
            /\ pc' = "done"
    /\ UNCHANGED <<sharedvars, negvars, encvars, storevars, session, stream, socket, server, route, branch, mwNext, responseInterface, response>>

\* the push-stream branch taken on any route
IsEventStreamRequestAnyRoute == req.accept = EventStreamAccept

\* line 1341
IsEventStreamRequest == req.accept = EventStreamAccept /\ route.eventStream

\* line 1375
IsWebsocketRequest == req.upgrade = "websocket" /\ route.websocket

\* line 1341: the request takes the push-stream branch
EnterEventStream ==
    /\ pc = "dispatch"
    /\ IsEventStreamRequest
    /\ branch' = "push-stream"
    /\ pc' = "body"
    /\ UNCHANGED <<sharedvars, negvars, encvars, storevars, session, stream, socket, server, route, req, mwNext, responseInterface, response,
                   wr, trace>>

\* the duplex-socket branch going to the upgrade at once
EnterWebsocketUpgradeFirst ==
    /\ pc = "dispatch"
    /\ ~IsEventStreamRequest
    /\ IsWebsocketRequest
    /\ branch' = "duplex-socket"
    /\ pc' = "upgrade"
    /\ UNCHANGED <<sharedvars, negvars, encvars, storevars, session, stream, socket, server, route, req, mwNext,
                   responseInterface, response, wr, trace>>

\* line 1375: the request takes the duplex-socket branch
EnterWebsocket ==
    /\ pc = "dispatch"
    /\ ~IsEventStreamRequest
    /\ IsWebsocketRequest
    /\ branch' = "duplex-socket"
    /\ pc' = "middlewares"
    /\ UNCHANGED <<sharedvars, negvars, encvars, storevars, session, stream, socket, server, route, req, mwNext, responseInterface, response,
                   wr, trace>>

\* not acceptable without the io.Reader fallback
notAcceptableWithoutFallback(negotiated, isReader) == negotiated = Nil

\* line 1434: responseInterface == nil && !isReader
notAcceptable(negotiated, isReader) == negotiated = Nil /\ ~isReader

\* lines 1429-1437: the normal branch negotiates the representation
NegotiateResponse ==
    /\ pc = "dispatch"
    /\ ~IsEventStreamRequest
    /\ ~IsWebsocketRequest
    /\ branch' = "normal"
    /\ LET negotiated == determineResponseInterface(NewRegistry, req.accept, route.implements)
           x1 == Logged(Ctx, Call("negotiate"))
       IN /\ responseInterface' = negotiated
          /\ IF notAcceptable(negotiated, route.isReader)
             THEN /\ \E readFail \in BOOLEAN, fail \in BOOLEAN :
                        Becomes(Apply(x1, server.errorHandler, 406, readFail, fail))
                  /\ pc' = "done"
             ELSE /\ Becomes(x1)
                  /\ pc' = "body"
    /\ UNCHANGED <<sharedvars, negvars, encvars, storevars, session, stream, socket, server, route, mwNext, response>>

\* lines 1342-1346 and 1439-1443: readBody, its error logged and delivered
ReadBody ==
    /\ pc = "body"
    /\ \E parseErr \in ParseErrors :
          LET r == readBody(req.contentLength, req.contentType, route.bodyParsers, parseErr)
              x1 == [Logged(Ctx, Call("readBody")) EXCEPT
                        !.req.bodySize = r.bodySize,
                        !.req.Body = IF r.set THEN "body" ELSE Nil]
          IN IF r.err # 0
             THEN /\ \E readFail \in BOOLEAN, fail \in BOOLEAN :
                        Becomes(Apply(Logged(x1, Call("LogError")), server.errorHandler,
                                      r.err, readFail, fail))
                  /\ pc' = "done"
             ELSE /\ Becomes(x1)
                  /\ pc' = "middlewares"
    /\ UNCHANGED <<sharedvars, negvars, encvars, storevars, session, stream, socket, server, route, branch, mwNext, responseInterface, response>>

\* the status of the error a middleware returns (0: nil)
MiddlewareResults == {0, 403}

\* a middleware's error delivered without leaving the loops
middlewareReturnedNoHalt(x, h, result, readFail, fail, fail2) ==
    IF result # 0
    THEN [x |-> Apply(x, h, result, readFail, fail), halted |-> FALSE]
    ELSE [x |-> x, halted |-> FALSE]

\* lines 1305-1308 and 1312-1315: the error a middleware returned is
\* delivered by runMiddlewares, which returns it, and the caller (lines
\* 1348-1352, 1377-1381, 1445-1448) delivers it again and returns
middlewareReturned(x, h, result, readFail, fail, fail2) ==
    IF result # 0
    THEN [x |-> Apply(Apply(x, h, result, readFail, fail), h, result, readFail, fail2),
          halted |-> TRUE]
    ELSE [x |-> x, halted |-> FALSE]

\* lines 1303-1320, one turn of the loops of runMiddlewares: the next
\* middleware runs
RunMiddleware ==
    /\ pc = "middlewares"
    /\ mwNext <= Len(MiddlewareChain)
    /\ \E result \in MiddlewareResults, readFail \in BOOLEAN, fail \in BOOLEAN,
          fail2 \in BOOLEAN :
          \E r \in { middlewareReturned(Logged(Ctx, MiddlewareCall(MiddlewareChain[mwNext])),
                                        server.errorHandler, result, readFail, fail, fail2) } :
             /\ Becomes(r.x)
             /\ pc' = IF r.halted THEN "done" ELSE "middlewares"
             /\ mwNext' = IF r.halted THEN mwNext ELSE mwNext + 1
             /\ session' = IF ~r.halted /\ MiddlewareChain[mwNext][1] = "route"
                           THEN [session EXCEPT !.Data = Touched(@)]
                           ELSE session
    /\ UNCHANGED <<sharedvars, negvars, encvars, storevars, stream, socket, server, route, branch, responseInterface,
                   response>>

\* runMiddlewares returned nil
MiddlewaresDone ==
    /\ pc = "middlewares"
    /\ mwNext > Len(MiddlewareChain)
    /\ pc' = CASE branch = "normal" -> "handler"
               [] branch = "push-stream" -> "stream"
               [] branch = "duplex-socket" -> "upgrade"
    /\ UNCHANGED <<sharedvars, negvars, encvars, storevars, session, stream, socket, server, route, req, branch, mwNext, responseInterface,
                   response, wr, trace>>

\* what a per-verb handler returns: the response value, the status it set
\* on the request (0: none) and the status of its error (0: nil)
HandlerResults ==
    { [value |-> "page", code |-> 0, err |-> 0],
      [value |-> "created", code |-> 201, err |-> 0],
      [value |-> "empty", code |-> 304, err |-> 0],
      [value |-> Nil, code |-> 0, err |-> 404] }

\* lines 1450-1474: the handler runs; its error is delivered; its response is
\* serialised through the negotiated capability or read as an io.Reader
InvokeHandler ==
    /\ pc = "handler"
    /\ \E result \in HandlerResults, readFail \in BOOLEAN, fail \in BOOLEAN :
          LET x1 == [Logged(Ctx, Call("handler")) EXCEPT !.req.ResponseCode = result.code]
              x2 == [x1 EXCEPT !.req.ResponseCode = IF @ = 0 THEN 200 ELSE @]
          IN IF result.err # 0
             THEN /\ Becomes(Apply(x1, server.errorHandler, result.err, readFail, fail))
                  /\ response' = response
                  /\ pc' = "done"
             ELSE IF responseInterface # Nil
             THEN /\ Becomes(x2)
                  /\ response' = [value |-> result.value,
                                  content |-> deliverContentAsInterface(result.value,
                                                                        responseInterface)]
                  /\ pc' = "save"
             ELSE IF readFail
             THEN /\ Becomes(Apply(Logged(x2, Call("LogError")), server.errorHandler,
                                   500, readFail, fail))
                  /\ response' = response
                  /\ pc' = "done"
             ELSE /\ Becomes(x2)
                  /\ response' = [value |-> result.value, content |-> ReadAll(result.value)]
                  /\ pc' = "save"
    /\ UNCHANGED <<sharedvars, negvars, encvars, storevars, session, stream, socket, server, route, branch, mwNext, responseInterface>>

\* the session left unsaved
SaveSessionSkipped ==
    /\ pc = "save"
    /\ pc' = "write"
    /\ UNCHANGED <<sharedvars, negvars, encvars, storevars, session, stream, socket, server, route, req, branch,
                   mwNext, responseInterface, response, wr, trace>>

\* lines 1476-1481: session.save, logged with whether the store's Save
\* returned an error; the error of save itself is logged
SaveSession ==
    /\ pc = "save"
    /\ \E r \in { save(wr, sessionStore, session) } :
          /\ sessionStore' = r.store
          /\ Becomes(LoggedIf(r.err,
                              Logged([Ctx EXCEPT !.wr = r.w],
                                     CallN("session.save", IF r.storeErr THEN 1 ELSE 0)),
                              <<"LogError", "session.save", 0>>))
          /\ pc' = IF r.panic THEN "panic" ELSE "write"
    /\ UNCHANGED <<sharedvars, negvars, encvars, storeLog, session, stream, socket, server, route, branch, mwNext, responseInterface, response>>

\* lines 1483-1489: the body is written, a failed write is logged, the
\* request is logged
WriteResponse ==
    /\ pc = "write"
    /\ \E fail \in BOOLEAN :
          LET r == writeWithContentEncoding(wr, response.content, req.acceptEncoding,
                                            req.ResponseCode, fail)
              x1 == [Logged(Ctx, CallN("write", IF r.err THEN 1 ELSE 0)) EXCEPT
                        !.wr = r.w, !.req.responseSize = Len(response.content)]
              x2 == IF r.err THEN Logged(x1, Call("LogError")) ELSE x1
          IN Becomes(Logged(x2, Call("LogRequest")))
    /\ pc' = "done"
    /\ UNCHANGED <<sharedvars, negvars, encvars, storevars, session, stream, socket, server, route, branch, mwNext, responseInterface, response>>

\* ------------------------------------------------------------------------
\* The push-stream branch, server.go 1354-1370, with the countdown producer of
\* the example (example/main.go 256-275)
\* ------------------------------------------------------------------------

\* lines 1354-1358: the three headers are set and the producer is started;
\* count is the value the producer sends next
StartEventStream ==
    /\ pc = "stream"
    /\ wr' = HeaderSet(HeaderSet(HeaderSet(wr, "Content-Type", "text/event-stream"),
                                 "Cache-Control", "no-cache"),
                       "Connection", "keep-alive")
    /\ trace' = Append(trace, Call("eventStream"))
    /\ stream' = [started |-> TRUE, count |-> CountdownFrom, closed |-> FALSE,
                  cancelled |-> FALSE]
    /\ pc' = "events"
    /\ UNCHANGED <<sharedvars, negvars, encvars, storevars, session, socket, server, route, req, branch, mwNext,
                   responseInterface, response>>

\* an event written twice
writeEventTwice(w, evt, fail) ==
    IF fail THEN w
    ELSE Write(Write(w, Encoded("", <<"data", evt>>)), Encoded("", <<"data", evt>>))

\* line 1361: fmt.Fprintf(w, "data: %s\n\n", evt.AsEventStream()); a failed
\* write leaves nothing on the wire
writeEvent(w, evt, fail) ==
    IF fail THEN w ELSE Write(w, Encoded("", <<"data", evt>>))

\* lines 1360-1367, one turn of the loop: the producer's send meets the
\* receive, the event is written and flushed; a failed write is logged and
\* leaves the loop
SendEvent ==
    /\ pc = "events"
    /\ ~stream.closed
    /\ stream.count >= 0
    /\ stream' = [stream EXCEPT !.count = @ - 1]
    /\ \E fail \in BOOLEAN :
          /\ wr' = writeEvent(wr, stream.count, fail)
          /\ IF fail
             THEN /\ trace' = Append(trace, <<"LogError", "event", stream.count>>)
                  /\ pc' = "done"
             ELSE /\ trace' = Append(trace, CallN("event", stream.count))
                  /\ pc' = "events"
    /\ UNCHANGED <<sharedvars, negvars, encvars, storevars, session, socket, server, route, req, branch, mwNext,
                   responseInterface, response>>

\* the request's context is cancelled: the client went away, or the handler
\* returned
CancelContext ==
    /\ pc \in {"events", "done"}
    /\ stream.started
    /\ ~stream.cancelled
    /\ stream' = [stream EXCEPT !.cancelled = TRUE]
    /\ UNCHANGED <<sharedvars, negvars, encvars, storevars, session, socket, server, route, req, pc, branch, mwNext,
                   responseInterface, response, wr, trace>>

\* the producer returns and its deferred close(ch) runs: after its last
\* send, or in its loop when it finds the context done
CloseEvents ==
    /\ stream.started
    /\ ~stream.closed
    /\ stream.count < 0 \/ (stream.count > 0 /\ stream.cancelled)
    /\ stream' = [stream EXCEPT !.closed = TRUE]
    /\ UNCHANGED <<sharedvars, negvars, encvars, storevars, session, socket, server, route, req, pc, branch, mwNext,
                   responseInterface, response, wr, trace>>

\* the push-stream branch going on to the save of the normal branch
EndEventStreamSaving ==
    /\ pc = "events"
    /\ stream.closed
    /\ pc' = "save"
    /\ UNCHANGED <<sharedvars, negvars, encvars, storevars, session, stream, socket, server, route, req, branch, mwNext,
                   responseInterface, response, wr, trace>>

\* a range that stays on the closed channel
EndEventStreamStuck ==
    /\ pc = "events"
    /\ stream.closed
    /\ UNCHANGED vars

\* line 1360 on a closed channel, line 1369: the loop ends, the handler returns
EndEventStream ==
    /\ pc = "events"
    /\ stream.closed
    /\ pc' = "done"
    /\ UNCHANGED <<sharedvars, negvars, encvars, storevars, session, stream, socket, server, route, req, branch, mwNext,
                   responseInterface, response, wr, trace>>

\* ------------------------------------------------------------------------
\* The duplex-socket branch, server.go 1383-1426, with the echo handler of the
\* example (example/main.go 283-292)
\* ------------------------------------------------------------------------

\* what ws.UpgradeHTTP wrote to w when it failed: nothing, or a status
UpgradeFailures == {0, 400}

\* lines 1384-1395: the inbound channel is made, the connection is upgraded,
\* the route's handler and the reader are started; a failed upgrade is
\* logged and delivered as 500
Upgrade ==
    /\ pc = "upgrade"
    /\ \E ok \in BOOLEAN, written \in UpgradeFailures, readFail \in BOOLEAN, fail \in BOOLEAN :
          LET x1 == Logged(Logged(Ctx, Call("make(in)")), Call("UpgradeHTTP"))
              x2 == IF written = 0 THEN x1 ELSE [x1 EXCEPT !.wr = WriteHeader(@, written)]
          IN IF ok
             THEN /\ Becomes(Logged(x1, Call("websocket")))
                  /\ socket' = [NoSocket EXCEPT !.reader = "reading", !.handler = "waiting"]
                  /\ pc' = "socket"
             ELSE /\ Becomes(Apply(Logged(x2, Call("LogError")), server.errorHandler,
                                   500, readFail, fail))
                  /\ socket' = socket
                  /\ pc' = "done"
    /\ UNCHANGED <<sharedvars, negvars, encvars, storevars, session, stream, server, route, branch, mwNext,
                   responseInterface, response>>

\* the text frames a client sends
ClientFrames == {"abc", "42"}

\* line 1405: the reader reads a text message of the client; read holds the
\* payloads wsutil.ReadClientText returned so far
SocketRead ==
    /\ pc \in {"socket", "done"}
    /\ socket.reader = "reading"
    /\ Len(socket.read) < MaxMessages
    /\ \E payload \in ClientFrames :
          socket' = [socket EXCEPT !.reader = "sending", !.read = Append(@, payload)]
    /\ UNCHANGED <<sharedvars, negvars, encvars, storevars, session, stream, server, route, req, pc, branch, mwNext,
                   responseInterface, response, wr, trace>>

\* a reader that returns without its deferred calls
readerReturnsNoDefer(sock) == [sock EXCEPT !.reader = "closed"]

\* lines 1398-1401, the deferred function of the reader: close(in), counted
\* in closes, and cancel()
readerReturns(sock) ==
    [sock EXCEPT !.reader = "closed", !.closes = @ + 1, !.cancelled = TRUE]

\* lines 1406-1412 and 1399-1402: the read fails, which is logged unless the
\* connection was closed; the reader closes the inbound channel and cancels
\* the context
SocketReadError ==
    /\ socket.reader = "reading"
    /\ \E closedConnection \in BOOLEAN :
          trace' = IF closedConnection THEN trace ELSE Append(trace, Call("LogError"))
    /\ socket' = readerReturns(socket)
    /\ UNCHANGED <<sharedvars, negvars, encvars, storevars, session, stream, server, route, req, pc, branch, mwNext,
                   responseInterface, response, wr>>

\* a send that drops the payload
sendDropped(received, payload) == received

\* line 1413, in <- payload: what the handler has received from inFeed once
\* the send has met its receive
send(received, payload) == Append(received, payload)

\* line 1413 meets the handler's receive from inFeed
SocketDeliver ==
    /\ socket.reader = "sending"
    /\ socket.handler = "waiting"
    /\ socket' = [socket EXCEPT !.reader = "reading", !.handler = "replying",
                                !.received = send(@, socket.read[Len(socket.read)])]
    /\ UNCHANGED <<sharedvars, negvars, encvars, storevars, session, stream, server, route, req, pc, branch, mwNext,
                   responseInterface, response, wr, trace>>

\* lines 1417-1424, one turn of the loop: the handler's send meets the
\* receive and the message is written to the connection; the error of the
\* write is not the one line 1420 tests, which is nil here
SocketWrite ==
    /\ pc = "socket"
    /\ socket.handler = "replying"
    /\ \E wsErr \in BOOLEAN :
          socket' = [socket EXCEPT
                        !.handler = "waiting",
                        !.written = IF wsErr THEN @
                                    ELSE Append(@, socket.received[Len(socket.received)]),
                        !.lost = IF wsErr THEN @ + 1 ELSE @]
    /\ UNCHANGED <<sharedvars, negvars, encvars, storevars, session, stream, server, route, req, pc, branch, mwNext,
                   responseInterface, response, wr, trace>>

\* the handler's range over inFeed ends and its deferred close(messages) runs
SocketHandlerClose ==
    /\ socket.handler = "waiting"
    /\ socket.reader = "closed"
    /\ socket' = [socket EXCEPT !.handler = "closed"]
    /\ UNCHANGED <<sharedvars, negvars, encvars, storevars, session, stream, server, route, req, pc, branch, mwNext,
                   responseInterface, response, wr, trace>>

\* line 1417 on a closed channel, line 1426: the loop ends, the handler returns
SocketDone ==
    /\ pc = "socket"
    /\ socket.handler = "closed"
    /\ pc' = "done"
    /\ UNCHANGED <<sharedvars, negvars, encvars, storevars, session, stream, socket, server, route, req, branch, mwNext,
                   responseInterface, response, wr, trace>>

Next ==
    \/ LoadSession
    \/ ResolveVerb
    \/ LookupHandler
    \/ EnterEventStream
    \/ EnterWebsocket
    \/ NegotiateResponse
    \/ ReadBody
    \/ RunMiddleware
    \/ MiddlewaresDone
    \/ InvokeHandler
    \/ SaveSession
    \/ WriteResponse
    \/ StartEventStream
    \/ SendEvent
    \/ CancelContext
    \/ CloseEvents
    \/ EndEventStream
    \/ Upgrade
    \/ SocketRead
    \/ SocketReadError
    \/ SocketDeliver
    \/ SocketWrite
    \/ SocketHandlerClose
    \/ SocketDone

Spec == Init /\ [][Next]_vars

\* ------------------------------------------------------------------------
\* The push-stream requests on their own, with the scheduling of the handler
\* and of the producer
\* ------------------------------------------------------------------------

\* the requests for the countdown stream of the example
InitStream ==
    /\ Init
    /\ route.path = "/countdown"
    /\ req.accept = EventStreamAccept
    /\ req.upgrade = ""
    /\ req.acceptEncoding = << >>
    /\ sessionStore = NewInMemorySessionStore

NextStream ==
    \/ LoadSession
    \/ ResolveVerb
    \/ LookupHandler
    \/ EnterEventStream
    \/ ReadBody
    \/ RunMiddleware
    \/ MiddlewaresDone
    \/ StartEventStream
    \/ SendEvent
    \/ CancelContext
    \/ CloseEvents
    \/ EndEventStream

\* the handler's goroutine and the producer's are scheduled: a receive that
\* can meet a send does, a producer that can return does, and a range over
\* a closed channel ends; net/http cancels the context of the request once
\* the handler has returned
SpecStream ==
    /\ InitStream
    /\ [][NextStream]_vars
    /\ WF_vars(SendEvent)
    /\ WF_vars(CancelContext)
    /\ WF_vars(CloseEvents)
    /\ WF_vars(EndEventStream)

\* ------------------------------------------------------------------------
\* Duplex-socket requests to a route whose handler may end on its own
\* ------------------------------------------------------------------------

\* line 1395, out := route.websocket(req, in): the handler is the
\* application's; unlike the echo of the example it may close the outbound
\* channel while the inbound one is open (a server that ends the
\* conversation), and it receives nothing from then on
SocketHandlerQuit ==
    /\ pc = "socket"
    /\ socket.handler = "waiting"
    /\ socket.reader # "closed"
    /\ socket' = [socket EXCEPT !.handler = "closed"]
    /\ UNCHANGED <<sharedvars, negvars, encvars, storevars, session, stream, server, route, req, pc, branch, mwNext,
                   responseInterface, response, wr, trace>>

InitSocket ==
    /\ Init
    /\ route.path = "/echo"
    /\ req.upgrade = "websocket"
    /\ req.acceptEncoding = << >>
    /\ sessionStore = NewInMemorySessionStore

NextSocket ==
    \/ LoadSession
    \/ ResolveVerb
    \/ LookupHandler
    \/ EnterWebsocket
    \/ RunMiddleware
    \/ MiddlewaresDone
    \/ Upgrade
    \/ SocketRead
    \/ SocketReadError
    \/ SocketDeliver
    \/ SocketWrite
    \/ SocketHandlerClose
    \/ SocketHandlerQuit
    \/ SocketDone

\* the dispatcher's goroutine, the reader's and the handler's are scheduled:
\* a send that can meet a receive does, a frame taken from the outbound
\* channel is written, a range over a closed channel ends; and the client
\* closes its connection at some time when the reader is reading from it
SpecSocket ==
    /\ InitSocket
    /\ [][NextSocket]_vars
    /\ WF_vars(SocketDeliver)
    /\ WF_vars(SocketWrite)
    /\ WF_vars(SocketHandlerClose)
    /\ WF_vars(SocketDone)
    /\ WF_vars(SocketReadError)

\* ------------------------------------------------------------------------
\* Claims about the handler ApplyRoute registers (checked under Spec)
\* ------------------------------------------------------------------------

Done == pc = "done"

\* the calls of one kind made so far
Called(what) == \E i \in DOMAIN trace : trace[i][1] = what

Delivered(statusCode) == \E i \in DOMAIN trace : trace[i] = CallN("Apply", statusCode)

UnknownVerb == ToUpper(req.method) \notin Verbs

\* C5: a request whose method text is not one of the nine verbs ends with 501
\* delivered through Error Delivery: the dispatch never gets past the verb
\* step, where it ends with status 501 written by Apply, and neither the
\* handler, nor readBody, nor a middleware runs.
C5_UnknownVerbNotImplemented ==
    UnknownVerb =>
        /\ pc \in {"load", "verb", "done"}
        /\ Done => (Delivered(501) /\ wr.status = 501)
        /\ ~Called("handler") /\ ~Called("readBody") /\ ~Called("middleware")

\* BREW on a route, with an error handler registered: Apply delivered 501
C5_Witness ==
    /\ Done
    /\ req.method = "BREW"
    /\ server.errorHandler.registered
    /\ wr.status = 501
    /\ Called("LogRequest")

VerbNotOnRoute == ToUpper(req.method) \in Verbs /\ ToUpper(req.method) \notin route.handlers

\* C6: a request with a recognised verb that the route has no handler for
\* ends with 405 whatever its other headers are: the dispatch never gets past
\* the lookup, takes no branch (push-stream and duplex-socket included), and
\* ends with status 405 written by Apply.
C6_NoHandlerMethodNotAllowed ==
    VerbNotOnRoute =>
        /\ pc \in {"load", "verb", "lookup", "done"}
        /\ branch = "none"
        /\ Done => (Delivered(405) /\ wr.status = 405)
        /\ ~stream.started /\ socket = NoSocket

\* a POST with Accept: text/event-stream and Upgrade: websocket on the
\* push-stream route, which handles GET only, ended with 405
C6_Witness ==
    /\ Done
    /\ req.method = "post"
    /\ route.eventStream
    /\ req.accept = EventStreamAccept
    /\ req.upgrade = "websocket"
    /\ wr.status = 405

NothingNegotiated == branch = "normal" /\ responseInterface = Nil

\* the entry of the trace for a write that did not fail
Wrote == \E i \in DOMAIN trace : trace[i] = CallN("write", 0)

\* the body a response writer holds after content went through it
BodyOf(content, acceptEncoding) ==
    IF content = << >> THEN << >>
    ELSE <<Encoded(selectEncoding(acceptEncoding), content)>>

\* C7: in the normal branch, when negotiation finds no representation: a
\* route whose response type is an io.Reader is never refused with 406, its
\* handler runs before the write and the bytes read from its response are the
\* body written; any other route ends with 406 and its handler is never
\* invoked; and an empty Accept header yields no negotiated representation.
C7_NoRepresentationFallsBackOrNotAcceptable ==
    /\ (NothingNegotiated /\ route.isReader) =>
          /\ ~Delivered(406)
          /\ Called("write") => Called("handler")
          /\ Wrote => /\ response.content = ReadAll(response.value)
                      /\ wr.body = BodyOf(response.content, req.acceptEncoding)
    /\ (NothingNegotiated /\ ~route.isReader) =>
          /\ Done /\ Delivered(406) /\ wr.status = 406
          /\ ~Called("handler")
    /\ (branch = "normal" /\ req.accept = << >>) => responseInterface = Nil

\* a static asset was requested with an Accept header nothing matches, and
\* the bytes of the handler's reader were written
C7_Witness ==
    /\ Done
    /\ NothingNegotiated
    /\ route.isReader
    /\ req.accept = <<"image", "/", "png">>
    /\ Wrote
    /\ wr.body = <<Encoded("", <<"bytes", "page">>)>>

\* the middlewares called so far, in order
MiddlewaresCalled == SelectSeq(trace, LAMBDA c : c[1] = "middleware")

\* server-level middlewares in registration order, then route-level ones
RegistrationOrder ==
    [i \in 1..(NumServerMiddlewares + NumRouteMiddlewares) |->
        IF i <= NumServerMiddlewares THEN <<"middleware", "server", i>>
        ELSE <<"middleware", "route", i - NumServerMiddlewares>>]

MiddlewareFailed == Delivered(403)

\* C9: for every request that reaches the middleware step the middlewares
\* are invoked in the order: every server-level middleware in registration
\* order, then every route-level middleware in registration order; no
\* route-level middleware runs before a server-level one; and all of them have
\* run when the step is left without an error.
C9_ServerThenRouteMiddlewares ==
    /\ Len(MiddlewaresCalled) <= Len(RegistrationOrder)
    /\ \A i \in DOMAIN MiddlewaresCalled : MiddlewaresCalled[i] = RegistrationOrder[i]
    /\ \A i, j \in DOMAIN MiddlewaresCalled :
          (MiddlewaresCalled[i][2] = "route" /\ MiddlewaresCalled[j][2] = "server") => j < i
    /\ (pc \in {"handler", "stream", "upgrade"}) => MiddlewaresCalled = RegistrationOrder

\* every middleware ran and the handler is next
C9_Witness ==
    /\ pc = "handler"
    /\ MiddlewaresCalled = RegistrationOrder
    /\ NumServerMiddlewares > 0 /\ NumRouteMiddlewares > 0

\* C10: if a middleware returns a non-nil error, no later middleware and no
\* handler is invoked for the request, the request ends, and the error's
\* status is delivered through Error Delivery.
C10_MiddlewareErrorHaltsChain ==
    \A i \in DOMAIN trace :
        trace[i] = CallN("Apply", 403) =>
            /\ \A j \in DOMAIN trace : j > i => trace[j][1] \notin {"middleware", "handler"}
            /\ ~Called("handler") /\ ~Called("eventStream") /\ ~Called("websocket")
            /\ Done
            /\ wr.status = 403

\* the first server-level middleware failed: no other one ran
C10_Witness ==
    /\ Done
    /\ MiddlewareFailed
    /\ MiddlewaresCalled = <<RegistrationOrder[1]>>
    /\ wr.status = 403

\* ------------------------------------------------------------------------
\* Claims about writeWithContentEncoding (checked under SpecEnc)
\* ------------------------------------------------------------------------

EncodingTokensOf(header) == Split(header, ",")

\* the tokens of the header that name a compressor
Recognised(header) ==
    { i \in DOMAIN EncodingTokensOf(header) :
        TrimSpace(EncodingTokensOf(header)[i]) \in { <<"gzip">>, <<"deflate">>, <<"br">> } }

\* the leftmost token that names a compressor, "" if none does
FirstRecognised(header) ==
    IF Recognised(header) = {} THEN ""
    ELSE TrimSpace(EncodingTokensOf(header)[
             CHOOSE i \in Recognised(header) : \A j \in Recognised(header) : i <= j])[1]

\* the first recognised token is applied: the body is written through its
\* compressor and the one Content-Encoding header names it; with none the
\* body is written as it is and no Content-Encoding header is set
FirstTokenApplied ==
    /\ enc.w.body = <<Encoded(FirstRecognised(enc.accept), enc.content)>>
    /\ enc.w.headers["Content-Encoding"] =
          IF FirstRecognised(enc.accept) = "" THEN << >>
          ELSE <<FirstRecognised(enc.accept)>>
    /\ enc.w.sent = enc.w.headers

\* C8, as stated: writeWithContentEncoding applies exactly the first token
\* among gzip, deflate, br: the body is compressed with that compressor and
\* exactly one Content-Encoding header naming it is set, later tokens are never
\* applied; with no recognised token the body is written uncompressed and no
\* Content-Encoding header is set (for every write that does not fail).
C8_FirstRecognisedEncodingApplied ==
    (enc.called /\ ~enc.err) => FirstTokenApplied

\* C8, amended: the same for every content that is not empty; for an empty
\* content nothing is written and no Content-Encoding header is set.
C8_FirstRecognisedEncodingAppliedNonEmpty ==
    (enc.called /\ ~enc.err) =>
        IF enc.content # << >> THEN FirstTokenApplied
        ELSE enc.w = NewResponseWriter

\* "gzip, br" yielded gzip
C8_Witness ==
    /\ enc.called /\ ~enc.err
    /\ enc.accept = <<"gzip", ",", " ", "br">>
    /\ enc.content = <<"body">>
    /\ enc.w.body = <<Encoded("gzip", <<"body">>)>>
    /\ enc.w.sent["Content-Encoding"] = <<"gzip">>

\* ------------------------------------------------------------------------
\* Claims about the response of the normal branch (checked under Spec)
\* ------------------------------------------------------------------------

\* the handler returned a response that was handed to the write step
Responded == branch = "normal" /\ Called("write")

\* the status the handler set on the request for the response it returned
\* (0: none)
HandlerCode == (CHOOSE r \in HandlerResults : r.value = response.value).code

ExpectedStatus == IF HandlerCode # 0 THEN HandlerCode ELSE 200

\* C11: the status written for a successful response equals the status the
\* handler set on the request when it set one, and 200 otherwise, for every
\* response body including an empty one.
C11_StatusIsHandlersOrOk ==
    (Done /\ Responded) =>
        /\ req.ResponseCode = ExpectedStatus
        /\ finishRequest(wr).status = ExpectedStatus

\* The same, for the responses whose body is not empty.
C11_StatusIsHandlersOrOkNonEmpty ==
    (Done /\ Responded /\ response.content # << >>) =>
        /\ req.ResponseCode = ExpectedStatus
        /\ wr.status = ExpectedStatus

\* a handler set 201 and returned a body: 201 was written
C11_WitnessNonEmpty ==
    /\ Done /\ Responded
    /\ response.value = "created"
    /\ wr.status = 201

\* ------------------------------------------------------------------------
\* Claims about the push-stream branch (checked under Spec)
\* ------------------------------------------------------------------------

PushStream == branch = "push-stream"

\* C12: in the push-stream branch no middleware, server-level or
\* route-level, is invoked: between the handler lookup and the first event
\* write only body decoding and the producer call happen.
C12_NoMiddlewareInPushStream ==
    PushStream => ~Called("middleware")

\* the events the producer handed over so far: CountdownFrom, ..., in order
EventsSent == [i \in 1..(CountdownFrom - stream.count) |-> CountdownFrom + 1 - i]

\* the write of an event failed
EventWriteFailed == \E i \in DOMAIN trace : trace[i][1] = "LogError" /\ trace[i][2] = "event"

\* the frames on the wire, as the events they carry
FramesWritten == [i \in DOMAIN wr.body |-> wr.body[i].content[2]]

\* the frames are the events handed over, each once and in the order sent,
\* every one of them unless a write failed (the stream then ends without the
\* event of the failed write)
FramesAreEventsSent ==
    stream.started =>
        /\ Len(wr.body) = Len(EventsSent) - (IF EventWriteFailed THEN 1 ELSE 0)
        /\ \A i \in DOMAIN wr.body : wr.body[i] = Encoded("", <<"data", EventsSent[i]>>)
        /\ (Done /\ ~EventWriteFailed /\ ~stream.cancelled) =>
              FramesWritten = [i \in 1..(CountdownFrom + 1) |-> CountdownFrom + 1 - i]

\* once the producer closed the channel nothing more is written
NoWriteAfterClose == (stream.started /\ stream.closed) => wr' = wr

\* C13: in the push-stream branch every event the producer sends is written
\* to the client exactly once as one framed event, in the order sent, and
\* after the producer closes the channel no further write occurs (a producer
\* that counts down to 0 and closes yields one frame per value, in descending
\* order).
C13_EventsWrittenOnceInOrder == []FramesAreEventsSent /\ [][NoWriteAfterClose]_vars

\* the countdown ran to its end: every value is on the wire, in order
C13_Witness ==
    /\ PushStream /\ Done
    /\ stream.closed /\ ~stream.cancelled /\ ~EventWriteFailed
    /\ Len(wr.body) = CountdownFrom + 1
    /\ FramesWritten[1] = CountdownFrom
    /\ FramesWritten[Len(wr.body)] = 0

\* ------------------------------------------------------------------------
\* Claims about the duplex-socket branch (checked under Spec)
\* ------------------------------------------------------------------------

DuplexSocket == branch = "duplex-socket"

Upgraded == socket.reader # "none"

\* the frames the reader has handed to the inbound channel: all it has read
\* but the one it is sending
FramesHandedOver ==
    IF socket.reader = "sending" THEN SubSeq(socket.read, 1, Len(socket.read) - 1)
    ELSE socket.read

\* C14: in the duplex-socket branch every text frame the client sends while
\* the reader loop is running is delivered on the inbound channel to the
\* application handler exactly once and in the order sent, unmodified: what the
\* handler has received is what the reader has read, frame by frame, but for
\* the frame whose send is pending.
C14_FramesDeliveredOnceInOrder ==
    Upgraded => socket.received = FramesHandedOver

\* two frames, the first one not a number, were read and received in order
C14_Witness ==
    /\ DuplexSocket
    /\ socket.read = <<"abc", "42">>
    /\ socket.received = <<"abc", "42">>

\* the place in the trace of the first call of a kind (0: none)
FirstCall(what) ==
    IF Called(what) THEN CHOOSE i \in DOMAIN trace :
                            /\ trace[i][1] = what
                            /\ \A j \in 1..(i - 1) : trace[j][1] # what
    ELSE 0

\* C15: in the duplex-socket branch the middleware chain runs to completion
\* before the upgrade handshake is attempted; if a middleware returns an error
\* the connection is not upgraded, the duplex handler is never invoked and no
\* reader is started.
C15_MiddlewaresBeforeUpgrade ==
    DuplexSocket =>
        /\ Called("UpgradeHTTP") =>
              /\ ~MiddlewareFailed
              /\ MiddlewaresCalled = RegistrationOrder
              /\ \A i \in DOMAIN trace :
                    trace[i][1] = "middleware" => i < FirstCall("UpgradeHTTP")
        /\ MiddlewareFailed =>
              /\ ~Called("UpgradeHTTP")
              /\ ~Called("websocket")
              /\ ~Upgraded
              /\ Done

\* every middleware ran, then the connection was upgraded and a frame read
C15_Witness ==
    /\ DuplexSocket
    /\ MiddlewaresCalled = RegistrationOrder
    /\ Called("websocket")
    /\ Upgraded
    /\ Len(socket.read) > 0

\* a route-level middleware failed: no upgrade was attempted
C15_WitnessError ==
    /\ DuplexSocket /\ Done
    /\ MiddlewareFailed
    /\ Len(MiddlewaresCalled) = NumServerMiddlewares + 1
    /\ ~Upgraded

\* ------------------------------------------------------------------------
\* Claims about the in-memory session store (checked under SpecStore)
\* ------------------------------------------------------------------------

\* the last Save or Delete of the token among the first n operations (0: none)
RECURSIVE LastWrite(_, _)
LastWrite(token, n) ==
    IF n = 0 THEN 0
    ELSE IF storeLog[n].token = token /\ storeLog[n].op \in {"Save", "Delete"} THEN n
    ELSE LastWrite(token, n - 1)

\* what Get of the token is to return after the first n operations
ExpectedData(token, n) ==
    IF LastWrite(token, n) # 0 /\ storeLog[LastWrite(token, n)].op = "Save"
    THEN storeLog[LastWrite(token, n)].data
    ELSE ZeroData

\* C16: for the in-memory session store, after any sequence of Save and
\* Delete operations, Get(token) returns exactly the data of the most recent
\* Save for that token if no Delete of that token followed it, and the empty
\* value otherwise.
C16_GetReturnsLastSave ==
    \A n \in DOMAIN storeLog :
        storeLog[n].op = "Get" => storeLog[n].returned = ExpectedData(storeLog[n].token, n - 1)

\* a token was saved, deleted and read: the empty value came back, while
\* the data saved for the other token was still there
C16_Witness ==
    /\ Len(storeLog) = 3
    /\ storeLog[1] = StoreOp("Save", "t1", "d1", Nil)
    /\ storeLog[2] = StoreOp("Delete", "t1", Nil, Nil)
    /\ storeLog[3] = StoreOp("Get", "t1", Nil, ZeroData)

\* a token was saved twice and read: the data of the second Save came back
C16_WitnessOverwrite ==
    /\ Len(storeLog) = 3
    /\ storeLog[1] = StoreOp("Save", "t1", "d1", Nil)
    /\ storeLog[2] = StoreOp("Save", "t1", "d2", Nil)
    /\ storeLog[3] = StoreOp("Get", "t1", Nil, "d2")

\* ------------------------------------------------------------------------
\* Claims about the session cookie (checked under Spec)
\* ------------------------------------------------------------------------

\* the token ParseToken derives for the request from the store of the server
TokenAtLoad ==
    IF sessionStore.kind = "sessionless" THEN ""
    ELSE IF req.cookie = Nil THEN GeneratedToken
    ELSE req.cookie

\* the Set-Cookie header as the client receives it
CookieSent == finishRequest(wr).sent["Set-Cookie"]

RenewingCookie == <<"session_token", "=", TokenAtLoad, "; Max-Age=", 86400>>

\* C17: a successful response carries a renewing session cookie (max-age one
\* day) holding the token derived at load time if and only if that token is
\* not empty; with the sessionless store no session cookie is ever set, and
\* no cookie is set before save time.
C17_SessionCookieIffToken ==
    /\ (Done /\ Responded) =>
          CookieSent = IF TokenAtLoad # "" THEN <<RenewingCookie>> ELSE << >>
    /\ sessionStore.kind = "sessionless" =>
          wr.headers["Set-Cookie"] = << >> /\ wr.sent["Set-Cookie"] = << >>
    /\ ~Called("session.save") =>
          wr.headers["Set-Cookie"] = << >> /\ wr.sent["Set-Cookie"] = << >>

\* a request without a session cookie got a response with a body and the
\* cookie of the generated token
C17_Witness ==
    /\ Done /\ Responded
    /\ req.cookie = Nil
    /\ sessionStore.kind = "memory"
    /\ wr.body # << >>
    /\ wr.sent["Set-Cookie"] = <<RenewingCookie>>

\* a response went out from a sessionless server, without a cookie
C17_WitnessSessionless ==
    /\ Done /\ Responded
    /\ sessionStore.kind = "sessionless"
    /\ wr.body # << >>
    /\ CookieSent = << >>

\* ------------------------------------------------------------------------
\* Claims about readBody (checked under Spec)
\* ------------------------------------------------------------------------

\* readBody was called on a body that is not empty
BodyRead == Called("readBody") /\ req.contentLength > 0

\* the media type the request declares, as mime.ParseMediaType returns it
\* ("": none)
DeclaredMediaType == ParseMediaType(req.contentType).mediaType

\* the media types the switch of readBody has a case for
HandledMediaTypes ==
    {"application/x-www-form-urlencoded", "multipart/form-data", "application/json", "text"}

C19_PlainTextHandedOrSkipped ==
    (BodyRead /\ DeclaredMediaType = "text/plain") =>
        /\ ~Delivered(415)
        /\ "plain" \notin route.bodyParsers => req.Body # Nil

\* ------------------------------------------------------------------------
\* Claims about Error Delivery (checked under Spec)
\* ------------------------------------------------------------------------

\* the status of the error Error Delivery was first called with
ErrorStatus == trace[CHOOSE i \in DOMAIN trace :
                        /\ trace[i][1] = "Apply"
                        /\ \A j \in 1..(i - 1) : trace[j][1] # "Apply"][3]

\* the negotiation of Error Delivery finds no capability for the request and
\* the error handler's response is no io.Reader either
NoRepresentation ==
    /\ server.errorHandler.registered
    /\ ~server.errorHandler.isReader
    /\ determineResponseInterface(NewRegistry, req.accept, server.errorHandler.implements) = Nil

C20_WitnessNoHandler ==
    /\ Done
    /\ ~server.errorHandler.registered
    /\ Delivered(405)
    /\ wr.status = 405
    /\ wr.body = << >>

\* ------------------------------------------------------------------------
\* Claims about the lifecycle of a request (checked under Spec)
\* ------------------------------------------------------------------------

\* the request did not branch into a sub-protocol
NormalBranch == branch \in {"none", "normal"}

\* the place of a call among the steps of the lifecycle (0: not a step)
StepRank(call) ==
    CASE call[1] = "negotiate" -> 1
      [] call[1] = "readBody" -> 2
      [] call[1] = "middleware" -> 3
      [] call[1] = "handler" -> 4
      [] OTHER -> 0

\* the calls of the request that are steps of the lifecycle
StepsTaken == SelectSeq(trace, LAMBDA c : StepRank(c) # 0)

\* the step that ran last (0: none ran, the request failed at the verb or
\* at the handler lookup)
LastStep == IF StepsTaken = << >> THEN 0 ELSE StepRank(StepsTaken[Len(StepsTaken)])

\* the statuses with which a step fails
StepStatuses(rank) ==
    CASE rank = 0 -> {501, 405}
      [] rank = 1 -> {406}
      [] rank = 2 -> {400, 415}
      [] rank = 3 -> {403}
      [] rank = 4 -> {404, 500}

\* where Error Delivery was first called
FirstApply == CHOOSE i \in DOMAIN trace :
                 /\ trace[i][1] = "Apply"
                 /\ \A j \in 1..(i - 1) : trace[j][1] # "Apply"

\* C21: in the normal branch the steps of the lifecycle run in the fixed
\* order verb-resolve, handler-lookup, representation-negotiate, body-decode,
\* middleware-run, handler-invoke, and the request ends at the first step
\* that fails: the response status is that step's status and no later step
\* runs.
C21_StepsInOrderFirstFailureEnds ==
    NormalBranch =>
        /\ \A i, j \in DOMAIN StepsTaken :
              i < j => /\ StepRank(StepsTaken[i]) <= StepRank(StepsTaken[j])
                       /\ StepRank(StepsTaken[i]) = StepRank(StepsTaken[j])
                             => StepRank(StepsTaken[i]) = 3
        /\ (Called("handler") => Called("readBody")) /\ (Called("readBody") => Called("negotiate"))
        /\ Called("Apply") =>
              /\ Done
              /\ \A i \in DOMAIN trace : i > FirstApply => StepRank(trace[i]) = 0
              /\ ErrorStatus \in StepStatuses(LastStep)
              /\ wr.status = ErrorStatus

\* a body that could not be decoded ended the request after the negotiation:
\* no middleware and no handler ran
C21_Witness ==
    /\ Done
    /\ NormalBranch
    /\ Called("negotiate")
    /\ Delivered(400)
    /\ LastStep = 2
    /\ wr.status = 400

\* all steps ran and the handler's error ended the request
C21_WitnessHandler ==
    /\ Done
    /\ NormalBranch
    /\ Len(StepsTaken) = 3 + NumServerMiddlewares + NumRouteMiddlewares
    /\ Delivered(404)
    /\ wr.status = 404

\* the Accept header of the request is the push-stream media type
AcceptsEventStream == req.accept = <<"text", "/", "event-stream">>

\* the Upgrade header of the request asks for a socket
AsksForSocket == req.upgrade = "websocket"

\* the request got past the handler lookup
Dispatched == branch # "none"

\* C22: a request enters the push-stream (resp. duplex-socket) branch exactly
\* when its Accept header is the push-stream media type (resp. its Upgrade
\* header asks for a socket) and the route declares the corresponding
\* handler; in an upgrade branch it never negotiates a representation and
\* never invokes the per-verb handler; a matching request to a route without
\* the corresponding handler goes through the normal pipeline.
C22_UpgradeBranchIffRequestedAndDeclared ==
    Dispatched =>
        /\ branch = "push-stream" <=> (AcceptsEventStream /\ route.eventStream)
        /\ branch = "duplex-socket" <=>
              (AsksForSocket /\ route.websocket /\ ~(AcceptsEventStream /\ route.eventStream))
        /\ branch \in {"push-stream", "duplex-socket"} =>
              /\ ~Called("negotiate")
              /\ ~Called("handler")
              /\ responseInterface = Nil
        /\ (~(AcceptsEventStream /\ route.eventStream) /\ ~(AsksForSocket /\ route.websocket)) =>
              branch = "normal"

\* a request for a push stream on a route with a producer: the producer was
\* started and the stream ran to its end
C22_Witness ==
    /\ Done
    /\ AcceptsEventStream
    /\ branch = "push-stream"
    /\ Called("eventStream")
    /\ stream.closed

\* a request for a socket on a route without a duplex handler: the per-verb
\* handler answered it
C22_WitnessNormal ==
    /\ Done
    /\ AsksForSocket
    /\ ~route.websocket
    /\ branch = "normal"
    /\ Called("handler")
    /\ Wrote

SaveCount == Len(SelectSeq(trace, LAMBDA c : c[1] = "session.save"))

\* C24: session.save is invoked exactly once for every request whose handler
\* returns a successful result that is serialised, and zero times for every
\* request that ends in a failure (unknown verb, missing handler, not
\* acceptable, decode failure, middleware error, handler error).
C24_SavedOnceOnSuccessOnly ==
    /\ SaveCount <= 1
    /\ (Done /\ NormalBranch /\ ~Called("Apply")) => (Responded /\ SaveCount = 1)
    /\ Called("Apply") => SaveCount = 0
    /\ ~NormalBranch => SaveCount = 0

\* a handler's result was serialised and written: the session was saved once
C24_Witness ==
    /\ Done
    /\ Responded
    /\ Called("handler")
    /\ wr.body # << >>
    /\ SaveCount = 1
    /\ sessionStore.kind = "memory"
    /\ TokenAtLoad \in DOMAIN sessionStore.Sessions

\* a handler returned an error: the session was not saved
C24_WitnessFailure ==
    /\ Done
    /\ Delivered(404)
    /\ SaveCount = 0
    /\ sessionStore = NewInMemorySessionStore

\* the Get of the server's session store fails
GetFails == sessionStore.kind = "failing"

\* the failure of session.load was reported to the logger
LoadFailureLogged == \E i \in DOMAIN trace : trace[i] = <<"LogError", "session.load", 0>>

\* once the session is loaded: a failed Get was logged, the session is
\* empty, and nothing is logged for a Get that did not fail
LoadFailureLoggedSessionEmpty ==
    Called("session.load") =>
        /\ LoadFailureLogged <=> GetFails
        /\ GetFails => session.Data = Nil

\* session.load goes on to the verb whatever the store returned, with
\* nothing written and Error Delivery not called
LoadNeverEndsRequest ==
    pc = "load" => (pc' = "verb" /\ wr' = wr /\ ~Called("Apply")')

\* C25: if the session store's Get fails at session-load, the failure is
\* logged and the request continues through the lifecycle with an empty
\* session; the load failure never produces an error response by itself.
C25_LoadFailureLoggedNotFatal == []LoadFailureLoggedSessionEmpty /\ [][LoadNeverEndsRequest]_vars

\* the store failed at load, and the request went on to a response with the
\* handler's status and body
C25_Witness ==
    /\ Done
    /\ GetFails
    /\ LoadFailureLogged
    /\ session.Data = Nil
    /\ Responded
    /\ ~Called("Apply")
    /\ wr.status = 201
    /\ wr.body # << >>

\* the Save of the server's session store returned an error to session.save
SaveFailed == \E i \in DOMAIN trace : trace[i] = CallN("session.save", 1)

\* the failure of session.save was reported to the logger
SaveFailureLogged == \E i \in DOMAIN trace : trace[i] = <<"LogError", "session.save", 0>>

\* C26: if the session store's Save fails at session-save, the failure is
\* reported to the logger (LogError is called with it) and the response is
\* still written with the handler's status and body.
C26_SaveFailureLoggedResponseWritten ==
    (Done /\ SaveFailed) =>
        /\ SaveFailureLogged
        /\ Responded
        /\ response.content # << >> => (wr.status = ExpectedStatus /\ wr.body # << >>)

\* how often the access log was called for the request
LogRequestCount == Len(SelectSeq(trace, LAMBDA c : c[1] = "LogRequest"))

\* C27: LogRequest is called for every request dispatched to a route,
\* exactly once, before the dispatch returns: on success and after every kind
\* of failure, whether or not an error handler is registered.
C27_AccessLoggedOnce == Done => LogRequestCount = 1

\* ------------------------------------------------------------------------
\* Claims about the end of a push stream (checked under SpecStream)
\* ------------------------------------------------------------------------

\* the handler is in the loop over the events
InEventLoop == pc = "events"

\* a failed write ends the loop in the step it fails in
FailedWriteLeaves == (~EventWriteFailed /\ EventWriteFailed') => pc' = "done"

\* after a failed write no event is taken from the channel and nothing is
\* written
FailedWriteConsumesNoMore == EventWriteFailed => (stream.count' = stream.count /\ wr' = wr)

C28_WitnessWriteFailed ==
    /\ Done
    /\ EventWriteFailed
    /\ ~stream.closed
    /\ stream.count >= 0

\* ------------------------------------------------------------------------
\* Claims about the duplex socket (checked under Spec)
\* ------------------------------------------------------------------------

\* ws.UpgradeHTTP returned an error, which line 1390 logs
UpgradeFailed ==
    \E i \in DOMAIN trace :
        /\ trace[i] = Call("UpgradeHTTP")
        /\ i < Len(trace)
        /\ trace[i + 1] = Call("LogError")

\* C29: if the duplex upgrade handshake fails, the request ends with the
\* internal-server-error condition through Error Delivery, the duplex
\* handler is never invoked, no inbound reader unit is started and no channel
\* has been created for the request.
C29_FailedUpgradeBeforeAnyChannel ==
    UpgradeFailed =>
        /\ Done
        /\ Delivered(500)
        /\ ~Called("websocket")
        /\ socket = NoSocket
        /\ ~Called("make(in)")

\* the reader of the socket returned
ReaderTerminated == socket.reader = "closed"

\* the inbound channel is closed once and the context cancelled exactly when
\* the reader has returned
ClosedOnceAndCancelled ==
    /\ socket.closes <= 1
    /\ ReaderTerminated <=> socket.closes = 1
    /\ ReaderTerminated <=> socket.cancelled
    /\ socket.handler = "closed" => ReaderTerminated

\* once the inbound channel is closed the reader reads and sends nothing
NoSendAfterClose ==
    socket.closes > 0 =>
        /\ socket.read' = socket.read
        /\ socket.received' = socket.received
        /\ socket.reader' = "closed"
        /\ socket.closes' = socket.closes

\* C30: whenever the duplex inbound reader loop terminates (clean close or
\* read error), the inbound channel is closed exactly once and the request's
\* cancellation signal is fired, so the handler always observes both; the
\* reader never sends on the inbound channel after closing it.
C30_ReaderEndClosesOnceAndCancels == []ClosedOnceAndCancelled /\ [][NoSendAfterClose]_vars

\* the client sent a frame and closed: the handler got the frame, saw the
\* channel closed and the request ended
C30_Witness ==
    /\ Done
    /\ ReaderTerminated
    /\ socket.closes = 1
    /\ socket.cancelled
    /\ socket.handler = "closed"
    /\ Len(socket.received) = 1

\* ------------------------------------------------------------------------
\* C31: failed writes to the client
\* ------------------------------------------------------------------------

\* the step appended a LogError call to the trace
LogsError ==
    /\ Len(trace') = Len(trace) + 1
    /\ trace'[Len(trace')][1] = "LogError"

\* lines 1418-1424: a frame taken from the outbound channel whose write failed
FrameWriteFails == socket.lost' > socket.lost

\* lines 1360-1365: an event taken from the channel of which nothing was written
EventWriteFails == stream.count' < stream.count /\ wr' = wr

\* lines 1484-1487: the body write of the normal branch failed, and the call
\* after it is the logger's
BodyWriteFailedLogged ==
    \A i \in DOMAIN trace :
        trace[i] = CallN("write", 1) =>
            i < Len(trace) /\ trace[i + 1] = Call("LogError")

\* no error response and no panic after a failed write
FailedWriteNotEscalated ==
    /\ \A i \in DOMAIN trace :
          (trace[i] = CallN("write", 1) \/ (trace[i][1] = "LogError" /\ trace[i][2] = "event")) =>
              \A j \in DOMAIN trace : j > i => trace[j][1] \notin {"Apply", "errorFn"}
    /\ (socket.lost > 0 \/ EventWriteFailed \/ Called("write")) => pc # "panic"

\* C31: every failed write to the client (a frame in the duplex-socket loop,
\* an event in the push-stream loop, the body in the normal branch) is
\* reported to the logger and never escalated into an error response or a
\* panic.
C31_FailedWritesLoggedNotEscalated ==
    /\ [][FrameWriteFails => LogsError]_vars
    /\ [][EventWriteFails => LogsError]_vars
    /\ [](pc = "done" => BodyWriteFailedLogged)
    /\ []FailedWriteNotEscalated

\* the claim without the duplex-socket loop
C31_EventAndBodyWritesLogged ==
    /\ [][EventWriteFails => LogsError]_vars
    /\ [](pc = "done" => BodyWriteFailedLogged)
    /\ []FailedWriteNotEscalated

\* ------------------------------------------------------------------------
\* C35: Error Delivery and the status line, once per request
\* ------------------------------------------------------------------------

\* the calls of s.errorHandler.Apply made for the request
ApplyCount == Len(SelectSeq(trace, LAMBDA c : c[1] = "Apply"))

\* the calls of w.WriteHeader made for the request: the one that committed
\* the status and the superfluous ones
WriteHeaderCount == (IF wr.status = 0 THEN 0 ELSE 1) + wr.superfluous

\* Error Delivery was invoked at most once
ApplyAtMostOnce == ApplyCount <= 1

\* C35: for every request, Error Delivery (errorHandler.Apply) is invoked at
\* most once and the response status is written at most once, on every
\* failure path including a middleware error in the normal, push-stream and
\* duplex-socket branches.
C35_ErrorDeliveryAndStatusOnce == ApplyAtMostOnce /\ WriteHeaderCount <= 1

\* Error Delivery is invoked twice exactly when a middleware returned an error
C35_TwiceIffMiddlewareError ==
    Done => /\ ApplyCount <= 2
            /\ ApplyCount = 2 <=> MiddlewareFailed

\* ------------------------------------------------------------------------
\* C36: the Content-Encoding header of a compressed body
\* ------------------------------------------------------------------------

\* every chunk written through a compressor is announced by the
\* Content-Encoding header that went out with the status
CompressedBodyAnnounced ==
    \A i \in DOMAIN wr.body :
        wr.body[i].encoding # "" => wr.sent["Content-Encoding"] = <<wr.body[i].encoding>>

\* C36: whenever a response body is written through a compressor, the
\* matching Content-Encoding header was set before the response status and
\* headers were committed, on both the success path and the Error Delivery
\* path (a compressed body is never sent without its Content-Encoding
\* header).
C36_CompressedBodyHasItsHeader == CompressedBodyAnnounced

\* the claim on the success path alone
C36_SuccessPathAnnounced == ~Called("Apply") => CompressedBodyAnnounced

\* ------------------------------------------------------------------------
\* C40: the session in the upgrade branches
\* ------------------------------------------------------------------------

\* the stores as they are constructed, before any request saved to them
StoresAsConstructed == {NewInMemorySessionStore, Sessionless, FailingStore}

\* what the request holds of the session differs from what the store gives
SessionDataModified ==
    /\ session.Data # Nil
    /\ session.Data # Get(sessionStore, session.Token).data

\* C40: a request that takes the push-stream or duplex-socket branch never
\* saves the session and never sets the session cookie: the session store's
\* contents for its token are the same after the request as before it,
\* whatever the producer, handler or middlewares did to the request's
\* session data.
C40_UpgradeBranchesLeaveTheSession ==
    (PushStream \/ DuplexSocket) =>
        /\ SaveCount = 0
        /\ wr.headers["Set-Cookie"] = << >>
        /\ wr.sent["Set-Cookie"] = << >>
        /\ sessionStore \in StoresAsConstructed

\* a push stream ended whose middleware changed the session data of a
\* client that sent a token: the store knows nothing of it
C40_Witness ==
    /\ Done
    /\ PushStream
    /\ stream.closed
    /\ sessionStore = NewInMemorySessionStore
    /\ session.Token = "t1"
    /\ SessionDataModified

\* the same for a duplex socket on which a frame was echoed
C40_WitnessSocket ==
    /\ Done
    /\ DuplexSocket
    /\ Len(socket.written) = 1
    /\ sessionStore = NewInMemorySessionStore
    /\ session.Token = "t1"
    /\ SessionDataModified

\* ------------------------------------------------------------------------
\* C32: the body size counter
\* ------------------------------------------------------------------------

\* the counter holds the number of bytes of the raw body
BodySizeIsLength == req.bodySize = req.contentLength

\* C32: after readBody returns, the request's body size counter equals the
\* total number of bytes of the raw request body, on every path: successful
\* decode, capability not satisfied (decode skipped), decode error,
\* unsupported media type, and empty body (0).
C32_BodySizeIsRawLength == Called("readBody") => BodySizeIsLength

\* the claim for the bodies that fit the buffer of the bufio.Reader
C32_BodySizeOfShortBody ==
    (Called("readBody") /\ req.contentLength <= defaultBufSize) => BodySizeIsLength

\* a body that was decoded is counted whole, whatever its length
C32_BodySizeOfDecodedBody ==
    (Called("readBody") /\ req.Body # Nil
        /\ DeclaredMediaType \in {"application/x-www-form-urlencoded", "application/json"}
        /\ (DeclaredMediaType = "application/json" \/ "form" \in route.bodyParsers))
    => BodySizeIsLength

\* ------------------------------------------------------------------------
\* C39: the producer after a failed write (checked under SpecStream)
\* ------------------------------------------------------------------------

\* the producer has returned: its deferred close(ch) ran
ProducerTerminated == stream.closed

\* the producer is in a send that nobody will receive: the handler has
\* returned and the producer is past its loop, in the send of line 272
ProducerBlockedForever ==
    /\ Done
    /\ stream.started
    /\ ~stream.closed
    /\ stream.count = 0

\* C39: after the dispatcher leaves the push-stream loop because a write
\* failed, a producer that checks the cancellation signal between sends (as
\* the example countdown producer does) eventually terminates and closes its
\* channel; it is never left blocked forever on a send that no one receives.
C39_ProducerEndsAfterFailedWrite == EventWriteFailed ~> ProducerTerminated

\* the producer does end when the failed write left it inside its loop
C39_ProducerInsideLoopEnds ==
    (EventWriteFailed /\ stream.count > 0) ~> ProducerTerminated

\* and it never ends when the failed write was that of the last event but one
C39_ProducerPastLoopStays ==
    [][ProducerBlockedForever => ProducerBlockedForever']_vars

\* ------------------------------------------------------------------------
\* C38: the inbound reader after the outbound loop (checked under SpecSocket)
\* ------------------------------------------------------------------------

\* the range over the outbound channel ended and the dispatcher returned
OutboundLoopEnded == Done /\ Upgraded

\* the reader holds a frame for the inbound channel and there is no receiver
ReaderBlockedInSend ==
    /\ OutboundLoopEnded
    /\ socket.reader = "sending"
    /\ socket.handler = "closed"

\* C38: every inbound reader unit started by the duplex-socket branch
\* eventually terminates once the dispatcher's outbound loop has ended (the
\* handler closed the outbound channel): it never stays blocked forever
\* sending a frame on an inbound channel that nobody receives from, nor
\* reading from a connection that is never closed.
C38_ReaderEndsAfterOutboundLoop == OutboundLoopEnded ~> ReaderTerminated

\* a reader blocked in its send stays there
C38_BlockedReaderStays == [][ReaderBlockedInSend => ReaderBlockedInSend']_vars

\* with the echo handler of the example the outbound channel is closed only
\* after the inbound one, so the reader has ended when the loop does
\* (checked under Spec)
C38_EchoReaderEndedBefore == OutboundLoopEnded => ReaderTerminated

\* ------------------------------------------------------------------------
\* Registrations after ApplyRoute, server.go 1162-1186 and 1273-1277
\* ------------------------------------------------------------------------

\* line 1185: s.contentTypeInterfaces[contentType] = reflection
RegisterContentTypeInterface(contentTypeInterfaces, contentType, capability) ==
    [t \in DOMAIN contentTypeInterfaces \cup {contentType} |->
        IF t = contentType THEN capability ELSE contentTypeInterfaces[t]]

\* a route was applied on the server New returned: implements holds, for the
\* tokens registered then, whether the route's response type satisfies the
\* capability; a request to the route carries one of the Accept headers
InitRegistry ==
    /\ registry = NewRegistry
    /\ negImplements \in { ImplementsOf(capabilities) :
                              capabilities \in SUBSET {"Htmler", "Csver", "Jsoner"} }
    /\ negAccept \in { << >>, <<"text", "/", "html">>, <<"text", "/", "csv">>,
                       <<"text", "/", "xml">>, <<"application", "/", "json">>,
                       <<"text", "/", "*">> }
    /\ negResult = Pending
    /\ fileHashMap = Nil
    /\ requests = Nil
    /\ EncIdle
    /\ PipeIdle
    /\ StoreIdle

\* RegisterContentTypeInterface is called once more, before the request: for
\* a new token (as the example does for xml) or for a registered one
RegisterLate ==
    /\ negResult = Pending
    /\ \E contentType \in DOMAIN NewRegistry \cup { <<"xml">> },
          capability \in {"Htmler", "Csver", "Jsoner", "Xmler"} :
          registry' = RegisterContentTypeInterface(registry, contentType, capability)
    /\ UNCHANGED <<negvars, encvars, pipevars, storevars, session, fileHashMap, requests>>

\* line 1429: the request is negotiated with the registry as it is now and
\* the implements map ApplyRoute computed
NegotiateRoute ==
    /\ negResult = Pending
    /\ negResult' = determineResponseInterface(registry, negAccept, negImplements)
    /\ UNCHANGED <<sharedvars, negAccept, negImplements, encvars, pipevars, storevars, session>>

NextRegistry == RegisterLate \/ NegotiateRoute

SpecRegistry == InitRegistry /\ [][NextRegistry]_vars

\* ------------------------------------------------------------------------
\* C34: the registry after ApplyRoute (checked under SpecRegistry)
\* ------------------------------------------------------------------------

\* the capabilities ApplyRoute found the response type to satisfy
TypeCapabilities == { NewRegistry[t] : t \in { k \in DOMAIN NewRegistry : negImplements[k] } }

\* the capability the registry of ApplyRoute's time selects
SelectedAtApply == determineResponseInterface(NewRegistry, negAccept, negImplements)

\* contentTypes.go 59: reflect.Value.Convert panics on a response that does
\* not satisfy the capability selected
DeliveryPanics == negResult \notin {Nil, Panic} /\ negResult \notin TypeCapabilities

\* a token of New was registered again with another capability
Reregistered == \E t \in DOMAIN NewRegistry : registry[t] # NewRegistry[t]

\* C34: a route's negotiation outcome depends only on the capability
\* registry as it was when the route was applied: registering a new token,
\* or re-registering an existing token with a different capability, after
\* ApplyRoute never changes which capability is selected for that route and
\* never makes a request to it fail.
C34_OutcomeOfRegistryAtApply ==
    Negotiated => (negResult = SelectedAtApply /\ ~DeliveryPanics)

\* the claim for new tokens alone
C34_NewTokenChangesNothing ==
    (Negotiated /\ ~Reregistered) => (negResult = SelectedAtApply /\ ~DeliveryPanics)

\* a request after a new token was registered
C34_NewTokenReached ==
    /\ Negotiated
    /\ ~Reregistered
    /\ <<"xml">> \in DOMAIN registry
    /\ negResult = "Htmler"

\* ------------------------------------------------------------------------
\* Concurrent requests on one session store, server.go 1294-1322 and
\* 1476-1477, session.go 87-119
\* ------------------------------------------------------------------------

\* NumRequests requests to the /counts route of the example have arrived,
\* each with the session_token cookie of a client; the store is new
InitSessions ==
    /\ requests \in [1..NumRequests ->
                        { [pc |-> "load", cookie |-> c, session |-> NoSession] : c \in Tokens }]
    /\ sessionStore = NewInMemorySessionStore
    /\ storeLog = << >>
    /\ registry = Nil
    /\ fileHashMap = Nil
    /\ NegIdle
    /\ EncIdle
    /\ PipeIdle

\* lines 1294-1299 and 1322: the request loads its session and holds a copy
\* of the stored data
RequestLoad(r) ==
    /\ requests[r].pc = "load"
    /\ requests' = [requests EXCEPT ![r].pc = "middlewares",
                       ![r].session = load(sessionStore, requests[r].cookie).session]
    /\ UNCHANGED <<negvars, encvars, pipevars, storevars, session, registry, fileHashMap>>

\* lines 1445-1450: the route's middleware counts the view in the data the
\* request holds
RequestMiddleware(r) ==
    /\ requests[r].pc = "middlewares"
    /\ requests' = [requests EXCEPT ![r].pc = "save",
                       ![r].session.Data = Touched(@)]
    /\ UNCHANGED <<negvars, encvars, pipevars, storevars, session, registry, fileHashMap>>

\* lines 1476-1477: the request writes what it holds back to the store
RequestSave(r) ==
    /\ requests[r].pc = "save"
    /\ sessionStore' = save(NewResponseWriter, sessionStore, requests[r].session).store
    /\ requests' = [requests EXCEPT ![r].pc = "done"]
    /\ UNCHANGED <<negvars, encvars, pipevars, storeLog, session, registry, fileHashMap>>

NextSessions ==
    \E r \in 1..NumRequests : RequestLoad(r) \/ RequestMiddleware(r) \/ RequestSave(r)

SpecSessions == InitSessions /\ [][NextSessions]_vars

\* ------------------------------------------------------------------------
\* C37: concurrent requests of one session (checked under SpecSessions)
\* ------------------------------------------------------------------------

AllRequestsDone == \A r \in 1..NumRequests : requests[r].pc = "done"

\* the requests that carry the token
RequestsOf(token) == { r \in 1..NumRequests : requests[r].cookie = token }

\* the data of a new session after n views were counted
RECURSIVE TouchedTimes(_)
TouchedTimes(n) == IF n = 0 THEN ZeroData ELSE Touched(TouchedTimes(n - 1))

\* the stored session of the token reflects the modification of every
\* request that carried it
StoredReflectsAll(token) ==
    Get(sessionStore, token).data = TouchedTimes(Cardinality(RequestsOf(token)))

\* C37: if two concurrent successful requests carry the same session token
\* and each modifies the session data it loaded (e.g. each increments a
\* counter), then after both have completed the stored session reflects both
\* modifications (no update is lost between load and save).
C37_NoLostSessionUpdate ==
    AllRequestsDone => \A token \in Tokens : StoredReflectsAll(token)

\* a request loads while another one of the same token holds its copy
Overlap ==
    \E r1, r2 \in 1..NumRequests :
        /\ r1 # r2
        /\ requests[r1].cookie = requests[r2].cookie
        /\ requests[r1].pc \in {"middlewares", "save"}
        /\ requests[r2].pc \in {"middlewares", "save"}

\* requests of different tokens do not disturb each other
C37_OtherTokensKept ==
    AllRequestsDone =>
        \A token \in Tokens :
            Cardinality(RequestsOf(token)) = 1 => StoredReflectsAll(token)

\* an update was lost: two requests of one token are done and one view is stored
C37_LostUpdate ==
    /\ AllRequestsDone
    /\ Cardinality(RequestsOf("t1")) = 2
    /\ Get(sessionStore, "t1").data = "d1"

\* ------------------------------------------------------------------------
\* Concurrent requests to the routes of one PublicRoute call, server.go
\* 1537-1600
\* ------------------------------------------------------------------------

\* line 1582, fmt.Sprintf("%x", md5.Sum(b)), for the files of the model
md5Sum(path) ==
    CASE path = "/js/app.js" -> "9a0364b9"
      [] OTHER -> "5d41402a"

\* line 1545: the table is made once per PublicRoute call and captured by
\* the GET handler of every route the walk creates; NumRequests GET requests
\* have arrived, each for a file and with an If-None-Match header that is
\* absent, current or stale
InitPublic ==
    /\ fileHashMap = << >>
    /\ requests \in [1..NumRequests ->
                        { [pc |-> "handler", path |-> p, hashCheck |-> h, ResponseCode |-> 0] :
                            p \in {"/js/app.js", "/css/site.css"},
                            h \in {"", "9a0364b9", "stale"} }]
    /\ registry = Nil
    /\ NegIdle
    /\ EncIdle
    /\ PipeIdle
    /\ StoreIdle

\* lines 1561-1562: with an If-None-Match header the handler goes on to
\* read the table, without one to read the file
PublicGet(r) ==
    /\ requests[r].pc = "handler"
    /\ requests' = [requests EXCEPT
                       ![r].pc = IF requests[r].hashCheck # "" THEN "reading" ELSE "file"]
    /\ UNCHANGED <<negvars, encvars, pipevars, storevars, session, registry, fileHashMap>>

\* lines 1562-1566: the read of fileHashMap[req.Path] ends; a missing key
\* reads as ""
PublicMapRead(r) ==
    /\ requests[r].pc = "reading"
    /\ LET known == IF requests[r].path \in DOMAIN fileHashMap
                    THEN fileHashMap[requests[r].path] ELSE ""
       IN requests' = IF known = requests[r].hashCheck
                      THEN [requests EXCEPT ![r].pc = "done", ![r].ResponseCode = 304]
                      ELSE [requests EXCEPT ![r].pc = "file"]
    /\ UNCHANGED <<negvars, encvars, pipevars, storevars, session, registry, fileHashMap>>

\* lines 1568-1583: os.ReadFile; the handler goes on to write the table
PublicReadFile(r) ==
    /\ requests[r].pc = "file"
    /\ \E found \in BOOLEAN :
          requests' = IF found THEN [requests EXCEPT ![r].pc = "writing"]
                      ELSE [requests EXCEPT ![r].pc = "done", ![r].ResponseCode = 404]
    /\ UNCHANGED <<negvars, encvars, pipevars, storevars, session, registry, fileHashMap>>

\* lines 1583-1592: the write fileHashMap[req.Path] = etag ends, and the
\* header is compared once more
PublicMapWrite(r) ==
    /\ requests[r].pc = "writing"
    /\ fileHashMap' = [p \in DOMAIN fileHashMap \cup {requests[r].path} |->
                          IF p = requests[r].path THEN md5Sum(p) ELSE fileHashMap[p]]
    /\ requests' = [requests EXCEPT
                       ![r].pc = "done",
                       ![r].ResponseCode = IF requests[r].hashCheck = md5Sum(requests[r].path)
                                           THEN 304 ELSE 200]
    /\ UNCHANGED <<negvars, encvars, pipevars, storevars, session, registry>>

\* a write of the map that overlaps another access of it is a data race:
\* the accesses may go through as above, or the Go runtime detects the race
\* ("fatal error: concurrent map writes", "concurrent map read and map
\* write") and ends the process with all its requests
ConcurrentMapFault ==
    /\ \E r1, r2 \in 1..NumRequests :
          /\ r1 # r2
          /\ requests[r1].pc = "writing"
          /\ requests[r2].pc \in {"reading", "writing"}
    /\ requests' = [r \in 1..NumRequests |-> [requests[r] EXCEPT !.pc = "fatal"]]
    /\ UNCHANGED <<negvars, encvars, pipevars, storevars, session, registry, fileHashMap>>

NextPublic ==
    \/ \E r \in 1..NumRequests :
          PublicGet(r) \/ PublicMapRead(r) \/ PublicReadFile(r) \/ PublicMapWrite(r)
    \/ ConcurrentMapFault

SpecPublic == InitPublic /\ [][NextPublic]_vars

\* ------------------------------------------------------------------------
\* C33: state shared by concurrent requests (checked under SpecPublic)
\* ------------------------------------------------------------------------

\* the request is inside an access of the ETag table
InMapAccess(r) == requests[r].pc \in {"reading", "writing"}

\* two requests are inside accesses of the table at once, one of them a write
RacingAccess ==
    \E r1, r2 \in 1..NumRequests :
        /\ r1 # r2
        /\ requests[r1].pc = "writing"
        /\ InMapAccess(r2)

\* the process was ended by the runtime
ProcessDied == \E r \in 1..NumRequests : requests[r].pc = "fatal"

\* C33: no mutable state other than the session store is shared between
\* concurrently executing requests: two concurrent requests to any route,
\* including the static-asset routes created by PublicRoute with their ETag
\* table, never read and write the same unsynchronised variable.
C33_NoUnsynchronisedSharedState == ~RacingAccess /\ ~ProcessDied

\* accesses of the table that do not overlap leave every request answered
C33_AnsweredWithoutRace ==
    ~ProcessDied =>
        \A r \in 1..NumRequests :
            requests[r].pc = "done" => requests[r].ResponseCode \in {200, 304, 404}

====
